---- MODULE Spec2Model ----
(***************************************************************************)
(* Inventory ledger and stock adjustment of the sp-customs backend:        *)
(* product and variant inventory records, their audit logs, the barcode    *)
(* scan handlers, the manual adjustments and the order-creation deduction. *)
(*                                                                         *)
(* Every HTTP handler is an operator from the database (and the request)   *)
(* to the database it leaves committed and the response it returns; an     *)
(* action applies one handler to the current database.  The generic Event  *)
(* rows written through EventService belong to the external audit feed and *)
(* are not part of the ledger state.                                       *)
(***************************************************************************)
EXTENDS Integers, Sequences, FiniteSets, TLC

VARIABLES
    products,                \* products table: id -> [barcode, is_active]
    variants,                \* product_variants table: id -> [product_id, barcode, sku_null, is_default, sort_order]
    inventory,               \* inventory table, keyed by product_id (unique FK)
    variant_inventory,       \* variant_inventory table, keyed by variant_id (unique FK)
    inventory_logs,          \* inventory_logs table, in insertion order
    variant_inventory_logs,  \* variant_inventory_logs table, in insertion order
    orders,                  \* orders table, in insertion order, each row with its order_items
    order_seq,               \* last value of the orders.id sequence
    direct_orders,           \* direct_orders table, in insertion order, each row with its items
    direct_order_seq,        \* last value of the direct_orders.id sequence
    product_seq,             \* last value of the products.id sequence
    variant_seq,             \* last value of the product_variants.id sequence
    clock,                   \* datetime.utcnow(): strictly increasing reading of the wall clock
    second,                  \* the wall-clock second of the last generate_order_number()
    resp,                    \* the response of the last request
    applied,                 \* ghost: per record, the signed counts of the scans that mutated it
    txn                      \* the open requests of the concurrent specification

vars == <<products, variants, inventory, variant_inventory, inventory_logs,
          variant_inventory_logs, orders, order_seq, direct_orders, direct_order_seq,
          product_seq, variant_seq, clock, second, resp, applied, txn>>

-----------------------------------------------------------------------------
(* Bounds of the exploration *)

\* Ledger rows (product and variant logs together) a behaviour of the scan-only
\* system may write.
MaxLogs == 2

\* Ledger rows a behaviour of the ledger system (scans of one catalog) may write.
MaxLedger == 3

\* Ledger rows and orders a behaviour of the whole system may write.
MaxHistory == 3

\* Requests that may be open at the same time in the concurrent system.
MaxClients == 2

\* Scans a behaviour of the concurrent system may accept.
MaxRace == 3

\* Orders, regular and direct together, a behaviour of the order system may create.
MaxOrders == 1

\* Products and variants together a behaviour of the catalog system may create.
MaxCatalog == 3

\* Ledger rows and orders after which the deduction system takes no request.
MaxDeduct == 2

\* Products and variants together a behaviour of the variant system may create.
MaxVariants == 3

-----------------------------------------------------------------------------
(* Values *)

\* A barcode or SKU string, by its shape:
\*   <<>>              None or the empty string (both falsy in Python)
\*   <<"SPC", n>>      "SPC" followed by n as nine zero-padded digits
\*   <<"SPCV", p, k>>  "SPCV" + product id (6 digits) + variant number (3 digits)
\*   <<"SKU", k>>      some other string that does not start with "SPC"
NoBarcode == <<>>

\* BarcodeGenerator.generate_barcode_number: f"SPC{product_id:09d}"
generate_barcode_number(product_id) == <<"SPC", product_id>>

\* BarcodeGenerator.decode_barcode: int() of what follows an "SPC" prefix, when it parses.
decode_barcode(barcode_content) ==
    IF barcode_content[1] = "SPC"
    THEN [has_product_id |-> TRUE, product_id |-> barcode_content[2]]
    ELSE [has_product_id |-> FALSE, product_id |-> 0]

\* A reference to one Inventory Record: product-level, variant-level, or none.
PRec(p) == [kind |-> "P", id |-> p]
VRec(v) == [kind |-> "V", id |-> v]
NoRec == [kind |-> "none", id |-> 0]

\* The database as one value.
DB == [products |-> products, variants |-> variants, inventory |-> inventory,
       variant_inventory |-> variant_inventory, inventory_logs |-> inventory_logs,
       variant_inventory_logs |-> variant_inventory_logs, orders |-> orders,
       order_seq |-> order_seq, direct_orders |-> direct_orders,
       direct_order_seq |-> direct_order_seq, product_seq |-> product_seq,
       variant_seq |-> variant_seq, clock |-> clock, second |-> second]

\* InventoryLog / VariantInventoryLog row.
LogRow(rec_id, action, change, before, after, reference) ==
    [inventory_id |-> rec_id, action |-> action, quantity_change |-> change,
     quantity_before |-> before, quantity_after |-> after, reference |-> reference]

\* The sequence without its i-th element.
Without(seq, i) == SubSeq(seq, 1, i - 1) \o SubSeq(seq, i + 1, Len(seq))

abs(n) == IF n < 0 THEN -n ELSE n
max(a, b) == IF a >= b THEN a ELSE b

-----------------------------------------------------------------------------
(* Inventory records *)

\* The quantity column of the record a reference names.
Quantity(db, rec) ==
    IF rec.kind = "P" THEN db.inventory[rec.id].quantity
    ELSE db.variant_inventory[rec.id].quantity

\* Inventory.available_quantity: quantity - reserved_quantity
available_quantity(inv) == inv.quantity - inv.reserved_quantity

\* VariantInventory.available_quantity: max(0, quantity - reserved_quantity)
variant_available_quantity(inv) == max(0, inv.quantity - inv.reserved_quantity)

-----------------------------------------------------------------------------
(* Scan Resolver: scan_inventory, up to the two 404 checks *)

\* select(ProductVariant).where(ProductVariant.barcode == data.barcode)
VariantByBarcode(db, barcode) ==
    {v \in DOMAIN db.variants : db.variants[v].barcode = barcode}

\* The orders in which the database may return the variant rows for
\* order_by(ProductVariant.sort_order): rows of equal sort_order come in any order.
RowOrders(db) ==
    LET ids == DOMAIN db.variants
        n == Cardinality(ids)
    IN {s \in [1..n -> ids] :
          /\ \A i, j \in 1..n : i # j => s[i] # s[j]
          /\ \A i, j \in 1..n :
                i < j => db.variants[s[i]].sort_order <= db.variants[s[j]].sort_order}

\* Product.variants: the product's variants, ordered by sort_order.
ProductVariants(db, p, rows) ==
    LET Mine(v) == db.variants[v].product_id = p
    IN SelectSeq(rows, Mine)

\* Mutant: the is_default flag is ignored.
DefaultVariant_First(db, vs) == vs[1]

\* next((v for v in product.variants if v.is_default), None), else product.variants[0]
DefaultVariant(db, vs) ==
    LET Flagged(v) == db.variants[v].is_default
        flagged == SelectSeq(vs, Flagged)
    IN IF flagged # <<>> THEN flagged[1] ELSE vs[1]

\* The product looked up when no variant carries the barcode: by id, by the id
\* decoded from the barcode, or by the products.barcode column.
ProductLookup(db, data) ==
    IF data.product_id # 0
    THEN [by |-> "product_id",
          ids |-> {p \in DOMAIN db.products : p = data.product_id}]
    ELSE IF data.barcode # NoBarcode
    THEN LET decoded == decode_barcode(data.barcode)
         IN IF decoded.has_product_id
            THEN [by |-> "decoded_id",
                  ids |-> {p \in DOMAIN db.products : p = decoded.product_id}]
            ELSE [by |-> "product_barcode",
                  ids |-> {p \in DOMAIN db.products : db.products[p].barcode = data.barcode}]
    ELSE [by |-> "none", ids |-> {}]

\* A variant and its own Inventory Record (variant.inventory, None when missing).
ResolveVariant(db, v, by) ==
    [product |-> db.variants[v].product_id, variant |-> v,
     inventory |-> IF v \in DOMAIN db.variant_inventory THEN VRec(v) ELSE NoRec,
     by |-> by]

\* if product.variants: the default variant's record; else the product's own.
ResolveProduct(db, p, vs, by) ==
    IF vs # <<>>
    THEN ResolveVariant(db, DefaultVariant(db, vs), by)
    ELSE [product |-> p, variant |-> 0,
          inventory |-> IF p \in DOMAIN db.inventory THEN PRec(p) ELSE NoRec,
          by |-> by]

\* product = result.scalar_one_or_none()
ResolveLookup(db, lookup, rows) ==
    IF lookup.ids = {}
    THEN [product |-> 0, variant |-> 0, inventory |-> NoRec, by |-> lookup.by]
    ELSE ResolveProduct(db, CHOOSE x \in lookup.ids : TRUE,
                        ProductVariants(db, CHOOSE x \in lookup.ids : TRUE, rows),
                        lookup.by)

\* Mutant: a variant found by barcode resolves to its parent product's own record.
ResolveHit_Parent(db, data, rows, hit) ==
    IF hit # {}
    THEN [product |-> db.variants[CHOOSE x \in hit : TRUE].product_id, variant |-> 0,
          inventory |-> PRec(db.variants[CHOOSE x \in hit : TRUE].product_id),
          by |-> "variant_barcode"]
    ELSE ResolveLookup(db, ProductLookup(db, data), rows)

\* if variant: ... / if not variant: ...
ResolveHit(db, data, rows, hit) ==
    IF hit # {}
    THEN ResolveVariant(db, CHOOSE x \in hit : TRUE, "variant_barcode")
    ELSE ResolveLookup(db, ProductLookup(db, data), rows)

\* The product, variant and Inventory Record a scan request resolves to: a variant
\* carrying the barcode first, then the product.
ResolveScan(db, data, rows) ==
    ResolveHit(db, data, rows,
               IF data.barcode # NoBarcode THEN VariantByBarcode(db, data.barcode) ELSE {})

-----------------------------------------------------------------------------
(* Stock Adjustment by scan: scan_inventory *)

ScanResponse(status, detail, r, committed, previous_qty, new_qty, change, low) ==
    [op |-> "scan", status |-> status, detail |-> detail, by |-> r.by,
     target |-> r.inventory, committed |-> committed,
     previous_quantity |-> previous_qty, new_quantity |-> new_qty, change |-> change,
     is_in_stock |-> new_qty > 0, is_low_stock |-> low]

ScanError(status, detail, r) == ScanResponse(status, detail, r, FALSE, 0, 0, 0, FALSE)

\* Mutant: scan_out adds the count instead of removing it.
ScanChange_Unsigned(data) == abs(data.quantity)

\* change = abs(data.quantity) for scan_in, -abs(data.quantity) for scan_out
ScanChange(data) ==
    IF data.action = "scan_in" THEN abs(data.quantity) ELSE -abs(data.quantity)

\* Mutant: the UPDATE adds the change to the stored quantity, as
\* SET quantity = quantity + :change would.
ScanCommit_Increment(db, data, r, previous_qty, change) ==
    IF r.variant # 0
    THEN [db EXCEPT
            !.variant_inventory[r.inventory.id].quantity = @ + change,
            !.variant_inventory_logs = Append(@,
                LogRow(r.inventory.id, data.action, change, previous_qty,
                       previous_qty + change, NoBarcode))]
    ELSE [db EXCEPT
            !.inventory[r.inventory.id].quantity = @ + change,
            !.inventory[r.inventory.id].last_scanned_at = db.clock,
            !.clock = @ + 1,
            !.inventory_logs = Append(@,
                LogRow(r.inventory.id, data.action, change, previous_qty,
                       previous_qty + change, NoBarcode))]

\* The database after inventory.quantity += change, the last_scanned_at stamp of a
\* product-level record, the log row and db.commit().  The ORM computes the new
\* quantity in the handler from the value it read and writes that value.
ScanCommit(db, data, r, previous_qty, change) ==
    IF r.variant # 0
    THEN [db EXCEPT
            !.variant_inventory[r.inventory.id].quantity = previous_qty + change,
            !.variant_inventory_logs = Append(@,
                LogRow(r.inventory.id, data.action, change, previous_qty,
                       previous_qty + change, NoBarcode))]
    ELSE [db EXCEPT
            !.inventory[r.inventory.id].quantity = previous_qty + change,
            !.inventory[r.inventory.id].last_scanned_at = db.clock,
            !.clock = @ + 1,
            !.inventory_logs = Append(@,
                LogRow(r.inventory.id, data.action, change, previous_qty,
                       previous_qty + change, NoBarcode))]

\* InventoryScanResponse declares product_sku: str; item_sku is variant.sku, a
\* nullable column, for a variant target, and product.sku (NOT NULL) otherwise.
ScanResponseInvalid(db, r) ==
    r.variant # 0 /\ db.variants[r.variant].sku_null

\* Mutant: the response compares with the column default instead of the record.
LowStockThreshold_Default(db, rec) == 5

\* low_stock_threshold of the adjusted record.
LowStockThreshold(db, rec) ==
    IF rec.kind = "P" THEN db.inventory[rec.id].low_stock_threshold
    ELSE db.variant_inventory[rec.id].low_stock_threshold

\* After db.commit(): the response model is built from the committed record; a
\* response that fails validation is a 500 with the adjustment committed.
ScanCommitted(after, r, previous_qty, new_qty, change) ==
    [db |-> after,
     resp |-> ScanResponse(IF ScanResponseInvalid(after, r) THEN 500 ELSE 200,
                           IF ScanResponseInvalid(after, r)
                           THEN "ResponseValidation" ELSE "OK",
                           r, TRUE, previous_qty, new_qty, change,
                           new_qty <= LowStockThreshold(after, r.inventory))]

\* Mutant: the scan_out stock check is missing.
ScanAdjust_NoStockCheck(db, data, r, previous_qty, change) ==
    IF data.action \notin {"scan_in", "scan_out"}
    THEN [db |-> db, resp |-> ScanError(400, "InvalidAction", r)]
    ELSE ScanCommitted(ScanCommit(db, data, r, previous_qty, change), r,
                       previous_qty, previous_qty + change, change)

\* From previous_qty = inventory.quantity to db.commit(): an HTTPException leaves
\* the database as it was.
ScanAdjust(db, data, r, previous_qty, change) ==
    IF data.action \notin {"scan_in", "scan_out"}
    THEN [db |-> db, resp |-> ScanError(400, "InvalidAction", r)]
    ELSE IF data.action = "scan_out" /\ previous_qty + change < 0
    THEN [db |-> db, resp |-> ScanError(400, "InsufficientStock", r)]
    ELSE ScanCommitted(ScanCommit(db, data, r, previous_qty, change), r,
                       previous_qty, previous_qty + change, change)

ScanResolved(db, data, r) ==
    IF r.product = 0
    THEN [db |-> db, resp |-> ScanError(404, "NotFound", r)]
    ELSE IF r.inventory = NoRec
    THEN [db |-> db, resp |-> ScanError(404, "InventoryNotInitialized", r)]
    ELSE ScanAdjust(db, data, r, Quantity(db, r.inventory), ScanChange(data))

\* POST /inventory/scan: the committed database and the response.
scan_inventory(db, data, rows) == ScanResolved(db, data, ResolveScan(db, data, rows))

\* One iteration of the bulk loop: try scan_inventory, except HTTPException.
BulkCaught(st, r) ==
    [db |-> r.db,
     results |-> IF r.resp.status = 200 THEN Append(st.results, r.resp) ELSE st.results,
     errors |-> IF r.resp.status \in {400, 404}
                THEN Append(st.errors, r.resp) ELSE st.errors,
     outcomes |-> Append(st.outcomes, r.resp),
     raised |-> r.resp.status \notin {200, 400, 404}]

BulkStep(st, scan, rows) ==
    IF st.raised THEN st ELSE BulkCaught(st, scan_inventory(st.db, scan, rows))

\* for scan in data.scans: the state of the loop after all iterations.  The loop
\* ends early when an exception other than HTTPException is raised.
BulkLoop(db, scans, rows) ==
    LET st[i \in 0..Len(scans)] ==
            IF i = 0
            THEN [db |-> db, results |-> <<>>, errors |-> <<>>, outcomes |-> <<>>,
                  raised |-> FALSE]
            ELSE BulkStep(st[i - 1], scans[i], rows[i])
    IN st[Len(scans)]

BulkResponse(st) ==
    [db |-> st.db,
     resp |-> [op |-> "bulk", status |-> IF st.raised THEN 500 ELSE 200,
               success_count |-> Len(st.results), error_count |-> Len(st.errors),
               outcomes |-> st.outcomes]]

\* POST /inventory/scan/bulk: scan_inventory for each scan in request order on the
\* same session; only an HTTPException is caught and recorded as a per-item error.
bulk_scan_inventory(db, scans, rows) == BulkResponse(BulkLoop(db, scans, rows))

-----------------------------------------------------------------------------
(* Manual adjustment: update_inventory, update_variant_inventory *)

\* InventoryUpdate after model_dump(exclude_unset=True): a field is either unset or
\* carries a value.
InventoryUpdate(has_quantity, quantity, has_allow_backorder, allow_backorder, has_low_stock_threshold, low_stock_threshold) ==
    [has_quantity |-> has_quantity, quantity |-> quantity,
     has_allow_backorder |-> has_allow_backorder, allow_backorder |-> allow_backorder,
     has_low_stock_threshold |-> has_low_stock_threshold,
     low_stock_threshold |-> low_stock_threshold]

\* if "quantity" in update_data and update_data["quantity"] != inventory.quantity
UpdateLogs(db, product_id, data) ==
    IF data.has_quantity /\ data.quantity # db.inventory[product_id].quantity
    THEN Append(db.inventory_logs,
                LogRow(product_id, "adjustment",
                       data.quantity - db.inventory[product_id].quantity,
                       db.inventory[product_id].quantity, data.quantity, NoBarcode))
    ELSE db.inventory_logs

\* for key, value in update_data.items(): setattr(inventory, key, value)
UpdateFields(row, data) ==
    [row EXCEPT
        !.quantity = IF data.has_quantity THEN data.quantity ELSE @,
        !.allow_backorder = IF data.has_allow_backorder THEN data.allow_backorder ELSE @,
        !.low_stock_threshold =
            IF data.has_low_stock_threshold THEN data.low_stock_threshold ELSE @]

\* PUT /inventory/{product_id}
update_inventory(db, product_id, data) ==
    IF product_id \notin DOMAIN db.inventory
    THEN [db |-> db,
          resp |-> [op |-> "update_inventory", status |-> 404, target |-> NoRec]]
    ELSE [db |-> [db EXCEPT !.inventory_logs = UpdateLogs(db, product_id, data),
                            !.inventory[product_id] = UpdateFields(@, data)],
          resp |-> [op |-> "update_inventory", status |-> 200,
                    target |-> PRec(product_id)]]

\* Mutant: remove subtracts without the clamp.
VariantNewQuantity_Unclamped(old_quantity, quantity, adjustment_type) ==
    IF adjustment_type = "set" THEN quantity
    ELSE IF adjustment_type = "add" THEN old_quantity + quantity
    ELSE old_quantity - quantity

\* set / add / remove: remove is clamped at 0
VariantNewQuantity(old_quantity, quantity, adjustment_type) ==
    IF adjustment_type = "set" THEN quantity
    ELSE IF adjustment_type = "add" THEN old_quantity + quantity
    ELSE max(0, old_quantity - quantity)

\* Mutant: the log row is written whatever the change.
VariantAdjustLogs_Always(db, variant_id, old_quantity, new_quantity, adjustment_type) ==
    Append(db.variant_inventory_logs,
           LogRow(variant_id, adjustment_type, new_quantity - old_quantity,
                  old_quantity, new_quantity, NoBarcode))

\* if quantity_change != 0: db.add(VariantInventoryLog(...))
VariantAdjustLogs(db, variant_id, old_quantity, new_quantity, adjustment_type) ==
    IF new_quantity - old_quantity # 0
    THEN Append(db.variant_inventory_logs,
                LogRow(variant_id, adjustment_type, new_quantity - old_quantity,
                       old_quantity, new_quantity, NoBarcode))
    ELSE db.variant_inventory_logs

VariantAdjust(db, variant_id, old_quantity, new_quantity, adjustment_type) ==
    [db |-> [db EXCEPT
                !.variant_inventory[variant_id].quantity = new_quantity,
                !.variant_inventory_logs =
                    VariantAdjustLogs(db, variant_id, old_quantity, new_quantity,
                                      adjustment_type)],
     resp |-> [op |-> "update_variant_inventory", status |-> 200,
               target |-> VRec(variant_id)]]

\* PUT /variants/{variant_id}/inventory?quantity=..&adjustment_type=..
update_variant_inventory(db, variant_id, quantity, adjustment_type) ==
    IF variant_id \notin DOMAIN db.variant_inventory
    THEN [db |-> db,
          resp |-> [op |-> "update_variant_inventory", status |-> 404, target |-> NoRec]]
    ELSE VariantAdjust(db, variant_id, db.variant_inventory[variant_id].quantity,
                       VariantNewQuantity(db.variant_inventory[variant_id].quantity,
                                          quantity, adjustment_type),
                       adjustment_type)

-----------------------------------------------------------------------------
(* Order creation: create_order *)

\* generate_order_number(): "ORD-%Y%m%d-%H%M%S" of now, the wall clock cut to the second.
generate_order_number(db) == db.second

OrderItemCreate(product_id, variant_id, quantity) ==
    [product_id |-> product_id, variant_id |-> variant_id, quantity |-> quantity]

\* What the session holds during the call: the working copy of the database, the
\* exception raised (status 0: none), and the working copy of the inventory tables
\* after each line item.
OrderSession(db, status, detail, line, staged) ==
    [db |-> db, status |-> status, detail |-> detail, line |-> line, staged |-> staged]

\* Mutant: orders.order_number carries no unique constraint.
OrderFlush_NoConstraint(db, order_number) ==
    OrderSession(
        [db EXCEPT !.order_seq = @ + 1,
                   !.orders = Append(@, [id |-> db.order_seq + 1,
                                         order_number |-> order_number,
                                         status |-> "pending", items |-> <<>>,
                                         shipped_at |-> 0, delivered_at |-> 0])],
        0, "", 0, <<>>)

\* db.add(order); await db.flush(): the INSERT meets the unique constraint on
\* orders.order_number.
OrderFlush(db, order_number) ==
    IF \E i \in 1..Len(db.orders) : db.orders[i].order_number = order_number
    THEN OrderSession(db, 500, "IntegrityError", 0, <<>>)
    ELSE OrderSession(
            [db EXCEPT !.order_seq = @ + 1,
                       !.orders = Append(@, [id |-> db.order_seq + 1,
                                             order_number |-> order_number,
                                             status |-> "pending", items |-> <<>>,
                                             shipped_at |-> 0, delivered_at |-> 0])],
            0, "", 0, <<>>)

\* db.add(OrderItem(order_id=order.id, ...))
OrderAddItem(db, item_data) ==
    [db EXCEPT !.orders[Len(db.orders)].items = Append(@, item_data)]

\* if product and product.inventory
OrderHasProductInventory(db, item_data) ==
    /\ item_data.product_id \in DOMAIN db.products
    /\ item_data.product_id \in DOMAIN db.inventory

\* Mutant: the order reserves the stock as well.
OrderDeductProduct_Reserve(db, p, n, order_number) ==
    [db EXCEPT
        !.inventory[p].quantity = max(0, @ - n),
        !.inventory[p].reserved_quantity = @ + n,
        !.inventory[p].last_scanned_at = db.clock,
        !.clock = @ + 1,
        !.inventory_logs = Append(@,
            LogRow(p, "order_out", 0 - n, db.inventory[p].quantity,
                   max(0, db.inventory[p].quantity - n), order_number))]

\* Mutant: the deduction is not clamped at 0.
OrderDeductProduct_Unclamped(db, p, n, order_number) ==
    [db EXCEPT
        !.inventory[p].quantity = @ - n,
        !.inventory[p].last_scanned_at = db.clock,
        !.clock = @ + 1,
        !.inventory_logs = Append(@,
            LogRow(p, "order_out", 0 - n, db.inventory[p].quantity,
                   db.inventory[p].quantity - n, order_number))]

\* Mutant: the deduction leaves last_scanned_at alone.
OrderDeductProduct_NoStamp(db, p, n, order_number) ==
    [db EXCEPT
        !.inventory[p].quantity = max(0, @ - n),
        !.inventory_logs = Append(@,
            LogRow(p, "order_out", 0 - n, db.inventory[p].quantity,
                   max(0, db.inventory[p].quantity - n), order_number))]

\* inventory.quantity = max(0, inventory.quantity - item_data.quantity), the
\* last_scanned_at stamp and the order_out log row.
OrderDeductProduct(db, p, n, order_number) ==
    [db EXCEPT
        !.inventory[p].quantity = max(0, @ - n),
        !.inventory[p].last_scanned_at = db.clock,
        !.clock = @ + 1,
        !.inventory_logs = Append(@,
            LogRow(p, "order_out", 0 - n, db.inventory[p].quantity,
                   max(0, db.inventory[p].quantity - n), order_number))]

\* Mutant: only the first line of an order is checked against the stock.
OrderLineProduct_FirstLineOnly(ses, item_data, i, order_number) ==
    IF ~OrderHasProductInventory(ses.db, item_data)
    THEN ses
    ELSE IF /\ i = 1
            /\ ses.db.inventory[item_data.product_id].quantity < item_data.quantity
            /\ ~ses.db.inventory[item_data.product_id].allow_backorder
    THEN [ses EXCEPT !.status = 400, !.detail = "InsufficientStock", !.line = i]
    ELSE [ses EXCEPT !.db = OrderDeductProduct(@, item_data.product_id,
                                               item_data.quantity, order_number)]

\* Mutant: the stock check looks at the flag only.
OrderLineProduct_NoCheck(ses, item_data, i, order_number) ==
    IF ~OrderHasProductInventory(ses.db, item_data)
    THEN ses
    ELSE [ses EXCEPT !.db = OrderDeductProduct(@, item_data.product_id,
                                               item_data.quantity, order_number)]

\* Mutant: the line is deducted before its stock check.
OrderLineProduct_DeductFirst(ses, item_data, i, order_number) ==
    IF ~OrderHasProductInventory(ses.db, item_data)
    THEN ses
    ELSE IF /\ ses.db.inventory[item_data.product_id].quantity < item_data.quantity
            /\ ~ses.db.inventory[item_data.product_id].allow_backorder
    THEN [ses EXCEPT !.status = 400, !.detail = "InsufficientStock", !.line = i,
                     !.db = OrderDeductProduct(@, item_data.product_id,
                                               item_data.quantity, order_number)]
    ELSE [ses EXCEPT !.db = OrderDeductProduct(@, item_data.product_id,
                                               item_data.quantity, order_number)]

\* The product half of a line item.
OrderLineProduct(ses, item_data, i, order_number) ==
    IF ~OrderHasProductInventory(ses.db, item_data)
    THEN ses
    ELSE IF /\ ses.db.inventory[item_data.product_id].quantity < item_data.quantity
            /\ ~ses.db.inventory[item_data.product_id].allow_backorder
    THEN [ses EXCEPT !.status = 400, !.detail = "InsufficientStock", !.line = i]
    ELSE [ses EXCEPT !.db = OrderDeductProduct(@, item_data.product_id,
                                               item_data.quantity, order_number)]

\* if variant and variant.inventory
OrderHasVariantInventory(db, item_data) ==
    /\ item_data.variant_id # 0
    /\ item_data.variant_id \in DOMAIN db.variants
    /\ item_data.variant_id \in DOMAIN db.variant_inventory

\* Mutant: the variant record is lowered without check or clamp.
OrderLineVariant_Unclamped(ses, item_data, i) ==
    IF ses.status # 0 \/ ~OrderHasVariantInventory(ses.db, item_data)
    THEN ses
    ELSE [ses EXCEPT !.db.variant_inventory[item_data.variant_id].quantity =
                        @ - item_data.quantity]

\* Mutant: the variant record is left alone.
OrderLineVariant_Skip(ses, item_data, i) == ses

\* The variant half of a line item.  VariantInventory has no allow_backorder
\* attribute: when the quantity comparison is true, evaluating the right-hand side
\* of the "and" raises AttributeError.
OrderLineVariant(ses, item_data, i) ==
    IF ses.status # 0 \/ ~OrderHasVariantInventory(ses.db, item_data)
    THEN ses
    ELSE IF ses.db.variant_inventory[item_data.variant_id].quantity < item_data.quantity
    THEN [ses EXCEPT !.status = 500, !.detail = "AttributeError", !.line = i]
    ELSE [ses EXCEPT !.db.variant_inventory[item_data.variant_id].quantity =
                        max(0, @ - item_data.quantity)]

\* if item_data.product_id: the product half, then the variant half.
OrderLineDeduct(ses, item_data, i, order_number) ==
    IF item_data.product_id = 0
    THEN ses
    ELSE OrderLineVariant(OrderLineProduct(ses, item_data, i, order_number),
                          item_data, i)

OrderStaged(ses) ==
    [ses EXCEPT !.staged = Append(@, [inventory |-> ses.db.inventory,
                                      variant_inventory |-> ses.db.variant_inventory])]

\* One iteration of for item_data in data.items; nothing runs after a raise.
OrderLine(ses, item_data, i, order_number) ==
    IF ses.status # 0
    THEN ses
    ELSE OrderStaged(OrderLineDeduct([ses EXCEPT !.db = OrderAddItem(@, item_data)],
                                     item_data, i, order_number))

OrderLoop(ses, items, order_number) ==
    LET st[i \in 0..Len(items)] ==
            IF i = 0 THEN ses ELSE OrderLine(st[i - 1], items[i], i, order_number)
    IN st[Len(items)]

\* The session is closed without a commit: what it staged is discarded and the
\* database stays as it was before the request.
Rollback(db, ses) == db

OrderResponse(status, detail, line, staged, order_number) ==
    [op |-> "create_order", status |-> status, detail |-> detail, line |-> line,
     staged |-> staged, order_number |-> order_number]

\* await db.commit() when the loop ran to its end; the exception leaves the
\* handler otherwise.
OrderCommit(db, ses, order_number) ==
    IF ses.status = 0
    THEN [db |-> ses.db, resp |-> OrderResponse(200, "OK", 0, ses.staged, order_number)]
    ELSE [db |-> Rollback(db, ses),
          resp |-> OrderResponse(ses.status, ses.detail, ses.line, ses.staged,
                                 order_number)]

\* POST /orders with line items `items`.
create_order(db, items) ==
    OrderCommit(db,
                OrderLoop(OrderFlush(db, generate_order_number(db)), items,
                          generate_order_number(db)),
                generate_order_number(db))

-----------------------------------------------------------------------------
(* Order status: regular orders *)

\* valid_statuses of update_order_status.
valid_statuses == {"pending", "processing", "packed", "shipped", "delivered", "cancelled"}

\* select(...).where(id == order_id) ... scalar_one_or_none(): the position of
\* the row in its table (0: None).
RowOf(rows, id) ==
    IF \E i \in 1..Len(rows) : rows[i].id = id
    THEN CHOOSE i \in 1..Len(rows) : rows[i].id = id
    ELSE 0

StatusResponse(op, status) == [op |-> op, status |-> status]

\* The stamps of update_order_status: a timestamp is written only while the
\* column is still NULL (0).
OrderStatusStamp_Restamp(db, i, status) ==
    IF status = "shipped"
    THEN [db EXCEPT !.orders[i].shipped_at = db.clock, !.clock = @ + 1]
    ELSE IF status = "delivered"
    THEN [db EXCEPT !.orders[i].delivered_at = db.clock, !.clock = @ + 1]
    ELSE db
OrderStatusStamp(db, i, status) ==
    IF status = "shipped" /\ db.orders[i].shipped_at = 0
    THEN [db EXCEPT !.orders[i].shipped_at = db.clock, !.clock = @ + 1]
    ELSE IF status = "delivered" /\ db.orders[i].delivered_at = 0
    THEN [db EXCEPT !.orders[i].delivered_at = db.clock, !.clock = @ + 1]
    ELSE db

OrderStatusAt(db, i, status) ==
    IF i = 0
    THEN [db |-> db, resp |-> StatusResponse("update_order_status", 404)]
    ELSE [db |-> OrderStatusStamp([db EXCEPT !.orders[i].status = status], i, status),
          resp |-> StatusResponse("update_order_status", 200)]

\* POST /orders/{order_id}/update-status?status=...
update_order_status(db, order_id, status) ==
    IF status \notin valid_statuses
    THEN [db |-> db, resp |-> StatusResponse("update_order_status", 400)]
    ELSE OrderStatusAt(db, RowOf(db.orders, order_id), status)

\* OrderUpdate as model_dump(exclude_unset=True) sees it: the status when the
\* body carries one.  The other fields of the schema are free-form columns of
\* the order that no handler reads.
OrderUpdate(has_status, status) == [has_status |-> has_status, status |-> status]

\* The stamps of update_order, written before the fields are assigned.
OrderUpdateStamp(db, i, new_status) ==
    IF new_status = "shipped" /\ db.orders[i].shipped_at = 0
    THEN [db EXCEPT !.orders[i].shipped_at = db.clock, !.clock = @ + 1]
    ELSE IF new_status = "delivered" /\ db.orders[i].delivered_at = 0
    THEN [db EXCEPT !.orders[i].delivered_at = db.clock, !.clock = @ + 1]
    ELSE db

\* for key, value in update_data.items(): setattr(order, key, value)
OrderUpdateFields(db, i, data) ==
    IF data.has_status
    THEN [OrderUpdateStamp(db, i, data.status) EXCEPT !.orders[i].status = data.status]
    ELSE db

OrderUpdateAt(db, i, data) ==
    IF i = 0
    THEN [db |-> db, resp |-> StatusResponse("update_order", 404)]
    ELSE [db |-> OrderUpdateFields(db, i, data), resp |-> StatusResponse("update_order", 200)]

\* PUT /orders/{order_id}
update_order(db, order_id, data) == OrderUpdateAt(db, RowOf(db.orders, order_id), data)

\* Mutant: deleting an order returns a unit to the record of each product of
\* its lines.
OrderDeleteAt_Restock(db, i) ==
    IF i = 0
    THEN [db |-> db, resp |-> StatusResponse("delete_order", 404)]
    ELSE [db |-> [db EXCEPT
                    !.orders = Without(@, i),
                    !.inventory =
                        [p \in DOMAIN db.inventory |->
                            IF \E k \in 1..Len(db.orders[i].items) :
                                  db.orders[i].items[k].product_id = p
                            THEN [db.inventory[p] EXCEPT !.quantity = @ + 1]
                            ELSE db.inventory[p]]],
          resp |-> StatusResponse("delete_order", 200)]

\* await db.delete(order); await db.commit()
OrderDeleteAt(db, i) ==
    IF i = 0
    THEN [db |-> db, resp |-> StatusResponse("delete_order", 404)]
    ELSE [db |-> [db EXCEPT !.orders = Without(@, i)],
          resp |-> StatusResponse("delete_order", 200)]

\* DELETE /orders/{order_id}: the row and, by cascade, its order_items.
delete_order(db, order_id) == OrderDeleteAt(db, RowOf(db.orders, order_id))

-----------------------------------------------------------------------------
(* Direct orders: shipped by the brand *)

\* valid_statuses of update_direct_order_status.
direct_valid_statuses == {"pending", "processing", "shipped", "delivered", "cancelled"}

\* f"DO-{%Y%m%d}-{%H%M%S}": one number per wall-clock second.
generate_direct_order_number(db) == db.second

DirectOrderItemCreate(product_id, variant_id, quantity) ==
    [product_id |-> product_id, variant_id |-> variant_id, quantity |-> quantity]

\* db.add(order); await db.flush(); db.add(item) for each line; commit.  The
\* INSERT meets the unique constraint on direct_orders.order_number.
DirectOrderInsert_Deduct(db, items, order_number) ==
    IF \E i \in 1..Len(db.direct_orders) : db.direct_orders[i].order_number = order_number
    THEN [db |-> db, resp |-> StatusResponse("create_direct_order", 500)]
    ELSE [db |-> [OrderLoop(OrderSession(db, 0, "", 0, <<>>), items, order_number).db
                     EXCEPT !.direct_order_seq = @ + 1,
                            !.direct_orders = Append(@, [id |-> db.direct_order_seq + 1,
                                                         order_number |-> order_number,
                                                         status |-> "pending", items |-> items,
                                                         shipped_at |-> 0, delivered_at |-> 0])],
          resp |-> StatusResponse("create_direct_order", 200)]
DirectOrderInsert(db, items, order_number) ==
    IF \E i \in 1..Len(db.direct_orders) : db.direct_orders[i].order_number = order_number
    THEN [db |-> db, resp |-> StatusResponse("create_direct_order", 500)]
    ELSE [db |-> [db EXCEPT !.direct_order_seq = @ + 1,
                            !.direct_orders = Append(@, [id |-> db.direct_order_seq + 1,
                                                         order_number |-> order_number,
                                                         status |-> "pending", items |-> items,
                                                         shipped_at |-> 0, delivered_at |-> 0])],
          resp |-> StatusResponse("create_direct_order", 200)]

\* POST /orders/direct
create_direct_order(db, items) == DirectOrderInsert(db, items, generate_direct_order_number(db))

\* DirectOrderUpdate as model_dump(exclude_unset=True) sees it: the status when
\* the body carries one, next to free-form columns of the order.
DirectOrderUpdate(has_status, status) == [has_status |-> has_status, status |-> status]

DirectOrderUpdateStamp(db, i, new_status) ==
    IF new_status = "shipped" /\ db.direct_orders[i].shipped_at = 0
    THEN [db EXCEPT !.direct_orders[i].shipped_at = db.clock, !.clock = @ + 1]
    ELSE IF new_status = "delivered" /\ db.direct_orders[i].delivered_at = 0
    THEN [db EXCEPT !.direct_orders[i].delivered_at = db.clock, !.clock = @ + 1]
    ELSE db

DirectOrderUpdateFields(db, i, data) ==
    IF data.has_status
    THEN [DirectOrderUpdateStamp(db, i, data.status)
             EXCEPT !.direct_orders[i].status = data.status]
    ELSE db

DirectOrderUpdateAt(db, i, data) ==
    IF i = 0
    THEN [db |-> db, resp |-> StatusResponse("update_direct_order", 404)]
    ELSE [db |-> DirectOrderUpdateFields(db, i, data),
          resp |-> StatusResponse("update_direct_order", 200)]

\* PUT /orders/direct/{order_id}
update_direct_order(db, order_id, data) ==
    DirectOrderUpdateAt(db, RowOf(db.direct_orders, order_id), data)

DirectOrderDeleteAt(db, i) ==
    IF i = 0
    THEN [db |-> db, resp |-> StatusResponse("delete_direct_order", 404)]
    ELSE [db |-> [db EXCEPT !.direct_orders = Without(@, i)],
          resp |-> StatusResponse("delete_direct_order", 200)]

\* DELETE /orders/direct/{order_id}
delete_direct_order(db, order_id) ==
    DirectOrderDeleteAt(db, RowOf(db.direct_orders, order_id))

DirectOrderStatusStamp(db, i, status) ==
    IF status = "shipped" /\ db.direct_orders[i].shipped_at = 0
    THEN [db EXCEPT !.direct_orders[i].shipped_at = db.clock, !.clock = @ + 1]
    ELSE IF status = "delivered" /\ db.direct_orders[i].delivered_at = 0
    THEN [db EXCEPT !.direct_orders[i].delivered_at = db.clock, !.clock = @ + 1]
    ELSE db

DirectOrderStatusAt(db, i, status) ==
    IF i = 0
    THEN [db |-> db, resp |-> StatusResponse("update_direct_order_status", 404)]
    ELSE [db |-> DirectOrderStatusStamp([db EXCEPT !.direct_orders[i].status = status], i,
                                        status),
          resp |-> StatusResponse("update_direct_order_status", 200)]

\* POST /orders/direct/{order_id}/update-status?status=...
update_direct_order_status(db, order_id, status) ==
    IF status \notin direct_valid_statuses
    THEN [db |-> db, resp |-> StatusResponse("update_direct_order_status", 400)]
    ELSE DirectOrderStatusAt(db, RowOf(db.direct_orders, order_id), status)

-----------------------------------------------------------------------------
(* Order scan lookup and product activation *)

\* OrderScanRequest: the barcode scanned, or a product id (0: None).
OrderScanRequest(product_id, barcode) == [product_id |-> product_id, barcode |-> barcode]

OrderScanResponse(status, detail, product_id, variant_id, available_qty) ==
    [op |-> "scan_product_for_order", status |-> status, detail |-> detail,
     product_id |-> product_id, variant_id |-> variant_id,
     available_quantity |-> available_qty]

\* if not variant: the product by id, by the id decoded from the barcode, or by
\* the products.barcode column (the set of matching ids).
OrderScanProducts(db, data) ==
    IF data.product_id # 0
    THEN {p \in DOMAIN db.products : p = data.product_id}
    ELSE IF data.barcode = NoBarcode
    THEN {}
    ELSE IF decode_barcode(data.barcode).has_product_id
    THEN {p \in DOMAIN db.products : p = decode_barcode(data.barcode).product_id}
    ELSE {p \in DOMAIN db.products : db.products[p].barcode = data.barcode}

\* available_qty = inventory.quantity if inventory else 0
OrderScanVariantQty(db, v) ==
    IF v \in DOMAIN db.variant_inventory THEN db.variant_inventory[v].quantity ELSE 0

OrderScanProductQty(db, p) ==
    IF p \in DOMAIN db.inventory THEN db.inventory[p].quantity ELSE 0

\* The response for an active product: the scanned variant, else the default
\* variant of a product that has variants, else the product itself.
OrderScanFound(db, p, v, vs) ==
    IF v # 0
    THEN OrderScanResponse(200, "OK", p, v, OrderScanVariantQty(db, v))
    ELSE IF vs # <<>>
    THEN OrderScanResponse(200, "OK", p, DefaultVariant(db, vs),
                           OrderScanVariantQty(db, DefaultVariant(db, vs)))
    ELSE OrderScanResponse(200, "OK", p, 0, OrderScanProductQty(db, p))

\* if not product: 404; if not product.is_active: 400.
OrderScanChecked(db, p, v, rows) ==
    IF p = 0
    THEN OrderScanResponse(404, "NotFound", 0, 0, 0)
    ELSE IF ~db.products[p].is_active
    THEN OrderScanResponse(400, "ProductInactive", p, v, 0)
    ELSE OrderScanFound(db, p, v, ProductVariants(db, p, rows))

OrderScanResolved(db, data, rows, hit, ids) ==
    IF hit # {}
    THEN OrderScanChecked(db, db.variants[CHOOSE x \in hit : TRUE].product_id,
                          CHOOSE x \in hit : TRUE, rows)
    ELSE OrderScanChecked(db, IF ids = {} THEN 0 ELSE CHOOSE x \in ids : TRUE, 0, rows)

\* POST /orders/scan: a lookup, nothing is written.
scan_product_for_order(db, data, rows) ==
    [db |-> db,
     resp |-> OrderScanResolved(db, data, rows,
                                IF data.barcode # NoBarcode
                                THEN VariantByBarcode(db, data.barcode) ELSE {},
                                OrderScanProducts(db, data))]

\* ProductUpdate as model_dump(exclude_unset=True) sees it: is_active when the
\* body carries it, next to descriptive fields.
ProductUpdate(has_is_active, is_active) ==
    [has_is_active |-> has_is_active, is_active |-> is_active]

\* PUT /products/{product_id}
update_product(db, product_id, data) ==
    IF product_id \notin DOMAIN db.products
    THEN [db |-> db, resp |-> [op |-> "update_product", status |-> 404]]
    ELSE [db |-> [db EXCEPT !.products[product_id].is_active =
                                IF data.has_is_active THEN data.is_active ELSE @],
          resp |-> [op |-> "update_product", status |-> 200]]

-----------------------------------------------------------------------------
(* Initial catalogs *)

ProductRow(barcode) == [barcode |-> barcode, is_active |-> TRUE]

VariantRow(product_id, barcode, sku_null, is_default, sort_order) ==
    [product_id |-> product_id, barcode |-> barcode, sku_null |-> sku_null,
     is_default |-> is_default, sort_order |-> sort_order]

\* Inventory(product_id, quantity): the column defaults of the model class.
InventoryRow(quantity) ==
    [quantity |-> quantity, reserved_quantity |-> 0, low_stock_threshold |-> 5,
     allow_backorder |-> FALSE, last_scanned_at |-> 0]

\* VariantInventory(variant_id, quantity): the column defaults of the model class.
VariantInventoryRow(quantity) ==
    [quantity |-> quantity, reserved_quantity |-> 0, low_stock_threshold |-> 5]

\* Product 1 (auto-generated barcode) has variants 1 and 2; product 2 has none.
\* The first variant either inherited the product's barcode (create_variant) or
\* was given its own; flags and sort orders are what create_variant and
\* update_variant can leave behind.
Catalog(v1_barcode, d1, d2, s1, s2, v2_sku_null, p2_barcode) ==
    [products |-> (1 :> ProductRow(generate_barcode_number(1)) @@ 2 :> ProductRow(p2_barcode)),
     variants |-> (1 :> VariantRow(1, v1_barcode, FALSE, d1, s1)
                   @@ 2 :> VariantRow(1, <<"SPCV", 1, 2>>, v2_sku_null, d2, s2)),
     inventory |-> (1 :> InventoryRow(2) @@ 2 :> InventoryRow(1)),
     variant_inventory |-> (1 :> VariantInventoryRow(1) @@ 2 :> VariantInventoryRow(2))]

BaseCatalog ==
    Catalog(generate_barcode_number(1), TRUE, FALSE, 0, 1, FALSE, <<"SKU", 2>>)

ScanCatalogs ==
    {BaseCatalog,
     Catalog(<<"SKU", 1>>, FALSE, TRUE, 0, 1, FALSE, generate_barcode_number(2)),
     Catalog(generate_barcode_number(1), FALSE, FALSE, 1, 0, FALSE, <<"SKU", 2>>),
     Catalog(<<"SKU", 1>>, FALSE, FALSE, 0, 0, FALSE, generate_barcode_number(2)),
     Catalog(<<"SKU", 1>>, TRUE, FALSE, 1, 0, TRUE, <<"SKU", 2>>)}

\* The last id a table's sequence has handed out (0: none).
LastId(ids) == IF ids = {} THEN 0 ELSE CHOOSE x \in ids : \A y \in ids : y <= x

Records(cat) ==
    {PRec(p) : p \in DOMAIN cat.inventory} \cup {VRec(v) : v \in DOMAIN cat.variant_inventory}

InitWith(cat) ==
    /\ products = cat.products
    /\ variants = cat.variants
    /\ inventory = cat.inventory
    /\ variant_inventory = cat.variant_inventory
    /\ inventory_logs = <<>>
    /\ variant_inventory_logs = <<>>
    /\ orders = <<>>
    /\ order_seq = 0
    /\ direct_orders = <<>>
    /\ direct_order_seq = 0
    /\ product_seq = LastId(DOMAIN cat.products)
    /\ variant_seq = LastId(DOMAIN cat.variants)
    /\ clock = 1
    /\ second = 0
    /\ resp = [op |-> "none", status |-> 0]
    /\ applied = [rec \in Records(cat) |-> <<>>]
    /\ txn = <<>>

-----------------------------------------------------------------------------
(* Catalog: products and variants are created and deleted *)

\* The table with the row of this id inserted / without the rows of these ids.
WithRow(table, id, row) ==
    [x \in DOMAIN table \cup {id} |-> IF x = id THEN row ELSE table[x]]

WithoutRows(table, ids) == [x \in DOMAIN table \ ids |-> table[x]]

\* ProductCreate: custom_sku (NoBarcode: None), initial_quantity, is_active.
ProductCreate(custom_sku, initial_quantity, is_active) ==
    [custom_sku |-> custom_sku, initial_quantity |-> initial_quantity,
     is_active |-> is_active]

\* product.barcode: the custom SKU, or the code generated from the new id.
ProductBarcode(id, data) ==
    IF data.custom_sku # NoBarcode THEN data.custom_sku ELSE generate_barcode_number(id)

CatalogResponse(op, status, id) == [op |-> op, status |-> status, id |-> id]

\* Mutant: the product is created without its Inventory Record.
ProductInsert_NoInventory(db, id, data) ==
    IF \E p \in DOMAIN db.products : db.products[p].barcode = ProductBarcode(id, data)
    THEN [db |-> [db EXCEPT !.product_seq = id],
          resp |-> CatalogResponse("create_product", 500, 0)]
    ELSE [db |-> [db EXCEPT
                    !.product_seq = id,
                    !.products = WithRow(@, id, [barcode |-> ProductBarcode(id, data),
                                                 is_active |-> data.is_active])],
          resp |-> CatalogResponse("create_product", 201, id)]

\* db.add(product); flush; the codes; db.add(Inventory(product_id, quantity));
\* commit.  products.barcode is unique.
ProductInsert(db, id, data) ==
    IF \E p \in DOMAIN db.products : db.products[p].barcode = ProductBarcode(id, data)
    THEN [db |-> [db EXCEPT !.product_seq = id],
          resp |-> CatalogResponse("create_product", 500, 0)]
    ELSE [db |-> [db EXCEPT
                    !.product_seq = id,
                    !.products = WithRow(@, id, [barcode |-> ProductBarcode(id, data),
                                                 is_active |-> data.is_active]),
                    !.inventory = WithRow(@, id, InventoryRow(data.initial_quantity))],
          resp |-> CatalogResponse("create_product", 201, id)]

\* POST /products
create_product(db, data) ==
    IF /\ data.custom_sku # NoBarcode
       /\ \E p \in DOMAIN db.products : db.products[p].barcode = data.custom_sku
    THEN [db |-> db, resp |-> CatalogResponse("create_product", 400, 0)]
    ELSE ProductInsert(db, db.product_seq + 1, data)

\* The variants of a product (Product.variants).
VariantIds(db, product_id) ==
    {v \in DOMAIN db.variants : db.variants[v].product_id = product_id}

\* VariantInventory.logs is a backref without a delete cascade and
\* variant_inventory_logs.variant_inventory_id is NOT NULL: the flush that
\* deletes a variant record first detaches its log rows (SET ... = NULL), which
\* the database refuses.
VariantLogsBlock(db, vs) ==
    \E k \in 1..Len(db.variant_inventory_logs) :
        db.variant_inventory_logs[k].inventory_id \in vs

\* order_items / direct_order_items: product_id, variant_id ON DELETE SET NULL.
ItemsSetNull(items, ps, vs) ==
    [k \in 1..Len(items) |->
        [items[k] EXCEPT !.product_id = IF @ \in ps THEN 0 ELSE @,
                         !.variant_id = IF @ \in vs THEN 0 ELSE @]]

RowsSetNull(rows, ps, vs) ==
    [i \in 1..Len(rows) |-> [rows[i] EXCEPT !.items = ItemsSetNull(@, ps, vs)]]

\* The rows of a ledger that do not belong to the records of these ids.
LogsWithout(logs, ids) ==
    LET Kept(row) == row.inventory_id \notin ids
    IN SelectSeq(logs, Kept)

\* db.delete(...); commit: the rows the cascades remove with products ps and
\* variants vs.
CascadeDelete(db, ps, vs) ==
    [db EXCEPT !.products = WithoutRows(@, ps),
               !.inventory = WithoutRows(@, ps),
               !.inventory_logs = LogsWithout(@, ps),
               !.variants = WithoutRows(@, vs),
               !.variant_inventory = WithoutRows(@, vs),
               !.orders = RowsSetNull(@, ps, vs),
               !.direct_orders = RowsSetNull(@, ps, vs)]

\* DELETE /products/{product_id}
delete_product(db, product_id) ==
    IF product_id \notin DOMAIN db.products
    THEN [db |-> db, resp |-> CatalogResponse("delete_product", 404, product_id)]
    ELSE IF VariantLogsBlock(db, VariantIds(db, product_id))
    THEN [db |-> db, resp |-> CatalogResponse("delete_product", 500, product_id)]
    ELSE [db |-> CascadeDelete(db, {product_id}, VariantIds(db, product_id)),
          resp |-> CatalogResponse("delete_product", 200, product_id)]

\* VariantCreate: whether a sku is given, the barcode (NoBarcode: None),
\* initial_quantity, is_default, sort_order.
VariantCreate(has_sku, barcode, initial_quantity, is_default, sort_order) ==
    [has_sku |-> has_sku, barcode |-> barcode, initial_quantity |-> initial_quantity,
     is_default |-> is_default, sort_order |-> sort_order]

\* is_first_variant and (data.is_default or not data.sku)
VariantInherits(db, product_id, data) ==
    VariantIds(db, product_id) = {} /\ (data.is_default \/ ~data.has_sku)

VariantBarcode(db, product_id, data) ==
    IF data.barcode # NoBarcode THEN data.barcode
    ELSE IF VariantInherits(db, product_id, data) THEN db.products[product_id].barcode
    ELSE <<"SPCV", product_id, Cardinality(VariantIds(db, product_id)) + 1>>

VariantInitialQuantity(db, product_id, data) ==
    IF VariantInherits(db, product_id, data) /\ data.initial_quantity <= 0
    THEN IF product_id \in DOMAIN db.inventory THEN db.inventory[product_id].quantity ELSE 0
    ELSE data.initial_quantity

\* update(ProductVariant).where(product_id == ...).values(is_default=False)
VariantsUnsetDefault(table, product_id) ==
    [v \in DOMAIN table |->
        IF table[v].product_id = product_id THEN [table[v] EXCEPT !.is_default = FALSE]
        ELSE table[v]]

\* db.add(variant); flush; db.add(VariantInventory(variant_id, quantity)); commit.
VariantInsert(db, product_id, id, barcode, qty, is_default, sort_order) ==
    [db |-> [db EXCEPT
                !.variant_seq = id,
                !.variants = WithRow(IF is_default THEN VariantsUnsetDefault(@, product_id)
                                     ELSE @,
                                     id, VariantRow(product_id, barcode, FALSE, is_default,
                                                    sort_order)),
                !.variant_inventory = WithRow(@, id, VariantInventoryRow(qty))],
     resp |-> CatalogResponse("create_variant", 201, id)]

\* The duplicate-barcode check (skipped for a first variant that carries its
\* product's barcode) and the unique constraint on product_variants.barcode.
VariantChecked(db, product_id, data, barcode) ==
    IF barcode # NoBarcode /\ \E v \in DOMAIN db.variants : db.variants[v].barcode = barcode
    THEN IF VariantIds(db, product_id) = {} /\ barcode = db.products[product_id].barcode
         THEN [db |-> [db EXCEPT !.variant_seq = @ + 1],
               resp |-> CatalogResponse("create_variant", 500, 0)]
         ELSE [db |-> db, resp |-> CatalogResponse("create_variant", 400, 0)]
    ELSE VariantInsert(db, product_id, db.variant_seq + 1, barcode,
                       VariantInitialQuantity(db, product_id, data),
                       VariantInherits(db, product_id, data) \/ data.is_default,
                       data.sort_order)

\* POST /variants/product/{product_id}
create_variant(db, product_id, data) ==
    IF product_id \notin DOMAIN db.products
    THEN [db |-> db, resp |-> CatalogResponse("create_variant", 404, 0)]
    ELSE VariantChecked(db, product_id, data, VariantBarcode(db, product_id, data))

\* DELETE /variants/{variant_id}
delete_variant(db, variant_id) ==
    IF variant_id \notin DOMAIN db.variants
    THEN [db |-> db, resp |-> CatalogResponse("delete_variant", 404, variant_id)]
    ELSE IF VariantLogsBlock(db, {variant_id})
    THEN [db |-> db, resp |-> CatalogResponse("delete_variant", 500, variant_id)]
    ELSE [db |-> CascadeDelete(db, {}, {variant_id}),
          resp |-> CatalogResponse("delete_variant", 204, variant_id)]

\* VariantUpdate after model_dump(exclude_unset=True): is_default is unset or
\* carries True or False.
VariantUpdate(has_is_default, is_default) ==
    [has_is_default |-> has_is_default, is_default |-> is_default]

\* Mutant: the other variants keep their flag.
VariantsUnsetOthers_Keep(table, product_id, variant_id) == table

\* update(ProductVariant).where(product_id == ...).where(id != variant_id)
\*     .values(is_default=False)
VariantsUnsetOthers(table, product_id, variant_id) ==
    [v \in DOMAIN table |->
        IF table[v].product_id = product_id /\ v # variant_id
        THEN [table[v] EXCEPT !.is_default = FALSE]
        ELSE table[v]]

\* for field, value in update_data.items(): setattr(variant, field, value)
VariantUpdateFields(row, data) ==
    [row EXCEPT !.is_default = IF data.has_is_default THEN data.is_default ELSE @]

\* if data.is_default: the other variants of the product are unset first.
VariantUpdateAt(db, variant_id, data) ==
    [db EXCEPT
        !.variants =
            [(IF data.has_is_default /\ data.is_default
              THEN VariantsUnsetOthers(@, db.variants[variant_id].product_id, variant_id)
              ELSE @)
             EXCEPT ![variant_id] = VariantUpdateFields(@, data)]]

\* PUT /variants/{variant_id}
update_variant(db, variant_id, data) ==
    IF variant_id \notin DOMAIN db.variants
    THEN [db |-> db, resp |-> CatalogResponse("update_variant", 404, variant_id)]
    ELSE [db |-> VariantUpdateAt(db, variant_id, data),
          resp |-> CatalogResponse("update_variant", 200, variant_id)]

-----------------------------------------------------------------------------
(* Requests *)

ScanBarcodes ==
    {NoBarcode, <<"SPC", 1>>, <<"SPC", 2>>, <<"SPCV", 1, 2>>, <<"SKU", 1>>, <<"SKU", 2>>,
     <<"SKU", 9>>}

ScanRequest(product_id, barcode, action, quantity) ==
    [product_id |-> product_id, barcode |-> barcode, action |-> action,
     quantity |-> quantity]

\* InventoryScanRequest: product_id and barcode optional, action a free string,
\* quantity any integer.  The requests the properties of the scan handler range over.
ScanRequests ==
    {ScanRequest(p, b, a, q) :
        p \in 0..2, b \in ScanBarcodes, a \in {"scan_in", "scan_out"}, q \in {-1, 0, 2}}
    \cup {ScanRequest(p, NoBarcode, "adjust", 1) : p \in 0..2}
    \cup {ScanRequest(3, NoBarcode, "scan_in", 1)}

\* The scans of the ledger system: each record by id or by barcode, both ways.
LedgerRequests ==
    {ScanRequest(p, NoBarcode, a, q) :
        p \in 1..2, a \in {"scan_in", "scan_out"}, q \in {-1, 0, 2}}
    \cup {ScanRequest(0, b, a, q) :
        b \in {<<"SPCV", 1, 2>>, <<"SKU", 2>>}, a \in {"scan_in", "scan_out"}, q \in 1..2}

\* The scans of the scan-only system: by product id, by an inherited, an own and
\* a generated variant barcode, by product barcode, unknown, refused.
CatalogScans ==
    {ScanRequest(1, NoBarcode, "scan_in", 1), ScanRequest(1, NoBarcode, "scan_out", 1),
     ScanRequest(2, <<"SPC", 1>>, "scan_in", 1),
     ScanRequest(0, <<"SPCV", 1, 2>>, "scan_in", 1),
     ScanRequest(0, <<"SPCV", 1, 2>>, "scan_out", 3),
     ScanRequest(0, <<"SKU", 1>>, "scan_in", 2),
     ScanRequest(0, <<"SPC", 2>>, "scan_out", 1),
     ScanRequest(0, <<"SKU", 9>>, "scan_in", 1),
     ScanRequest(1, NoBarcode, "adjust", 1)}

\* The scans of a bulk request.
BulkScans ==
    {ScanRequest(0, <<"SPCV", 1, 2>>, "scan_in", 1),
     ScanRequest(2, NoBarcode, "scan_out", 2),
     ScanRequest(2, NoBarcode, "scan_in", 1),
     ScanRequest(0, <<"SKU", 9>>, "scan_in", 1)}

BulkRequests == {<<a>> : a \in BulkScans} \cup {<<a, b>> : a \in BulkScans, b \in BulkScans}

\* The scans of the whole system.
SystemScans ==
    {ScanRequest(2, NoBarcode, "scan_in", 1), ScanRequest(2, NoBarcode, "scan_out", 1),
     ScanRequest(2, NoBarcode, "scan_out", 3), ScanRequest(1, NoBarcode, "scan_out", 1),
     ScanRequest(0, <<"SPCV", 1, 2>>, "scan_in", 1)}

\* Bodies of PUT /inventory/{product_id}: a new quantity (any integer) or the
\* backorder flag.
UpdateRequests ==
    {InventoryUpdate(TRUE, -2, FALSE, FALSE, FALSE, 0),
     InventoryUpdate(TRUE, 2, FALSE, FALSE, FALSE, 0),
     InventoryUpdate(FALSE, 0, TRUE, TRUE, FALSE, 0)}

\* Query parameters of PUT /variants/{variant_id}/inventory: quantity >= 0.
VariantQuantities == {0, 3}

AdjustmentTypes == {"set", "add", "remove"}

\* OrderItemCreate: product_id and variant_id optional, quantity any integer.
OrderItems ==
    {OrderItemCreate(2, 0, 1), OrderItemCreate(2, 0, 2), OrderItemCreate(1, 1, 1),
     OrderItemCreate(2, 0, -1), OrderItemCreate(1, 2, 3), OrderItemCreate(0, 2, 1)}

\* Line items of the orders of several lines.
PairItems ==
    {OrderItemCreate(2, 0, 1), OrderItemCreate(2, 0, 2), OrderItemCreate(1, 1, 1)}

OrderRequests ==
    {<<a>> : a \in OrderItems}
    \cup {<<a, OrderItemCreate(2, 0, 2)>> : a \in PairItems}
    \cup {<<OrderItemCreate(2, 0, 1), OrderItemCreate(1, 1, 1)>>,
          <<OrderItemCreate(2, 0, 1), OrderItemCreate(1, 1, 1), OrderItemCreate(2, 0, 2)>>}

-----------------------------------------------------------------------------
(* Actions of the single-writer system: one request at a time *)

TotalLogs == Len(inventory_logs) + Len(variant_inventory_logs)

\* The signed count of a scan: +N for scan_in, -N for scan_out, N = |quantity|.
SignedCount(data) ==
    IF data.action = "scan_in" THEN abs(data.quantity) ELSE 0 - abs(data.quantity)

RECURSIVE AppliedAfter(_, _, _, _)
AppliedAfter(app, scans, outcomes, i) ==
    IF i > Len(outcomes) THEN app
    ELSE AppliedAfter(
            IF outcomes[i].committed
            THEN [app EXCEPT ![outcomes[i].target] = Append(@, SignedCount(scans[i]))]
            ELSE app,
            scans, outcomes, i + 1)

Store(db) ==
    /\ products' = db.products
    /\ variants' = db.variants
    /\ inventory' = db.inventory
    /\ variant_inventory' = db.variant_inventory
    /\ inventory_logs' = db.inventory_logs
    /\ variant_inventory_logs' = db.variant_inventory_logs
    /\ orders' = db.orders
    /\ order_seq' = db.order_seq
    /\ direct_orders' = db.direct_orders
    /\ direct_order_seq' = db.direct_order_seq
    /\ product_seq' = db.product_seq
    /\ variant_seq' = db.variant_seq
    /\ clock' = db.clock
    /\ second' = db.second

\* The request is answered: the database it committed, its response, and the
\* ghost record of the scans that mutated a record.
Answer(r, scans, outcomes) ==
    /\ Store(r.db)
    /\ resp' = r.resp
    /\ applied' = AppliedAfter(applied, scans, outcomes, 1)
    /\ UNCHANGED txn

ScanAnswer(r, data) == Answer(r, <<data>>, <<r.resp>>)

\* Ledger rows and orders written so far.
History == TotalLogs + Len(orders)

\* The exploration follows a request while the bound is not reached (Open) and
\* what the request writes stays in it (Within).
Open(bound) == History < bound

Within(bound) ==
    Len(inventory_logs') + Len(variant_inventory_logs') + Len(orders') <= bound

ScanWith(requests, bound) ==
    /\ Open(bound)
    /\ \E data \in requests, rows \in RowOrders(DB) :
          ScanAnswer(scan_inventory(DB, data, rows), data)
    /\ Within(bound)

ScanInventory == ScanWith(CatalogScans, MaxLogs)

LedgerScan == ScanWith(LedgerRequests, MaxLedger)

BulkAnswer(r, scans) == Answer(r, scans, r.resp.outcomes)

BulkScanInventory ==
    /\ Open(MaxLogs)
    /\ \E scans \in BulkRequests :
       \E rows \in [1..Len(scans) -> RowOrders(DB)] :
          BulkAnswer(bulk_scan_inventory(DB, scans, rows), scans)
    /\ Within(MaxLogs)

Scan == ScanWith(SystemScans, MaxHistory)

OtherAnswer(r) == Answer(r, <<>>, <<>>)

UpdateInventory ==
    /\ Open(MaxHistory)
    /\ \E product_id \in 2..3, data \in UpdateRequests :
          OtherAnswer(update_inventory(DB, product_id, data))
    /\ Within(MaxHistory)

UpdateVariantInventory ==
    /\ Open(MaxHistory)
    /\ \E variant_id \in 2..3, quantity \in VariantQuantities,
          adjustment_type \in AdjustmentTypes :
          OtherAnswer(update_variant_inventory(DB, variant_id, quantity, adjustment_type))
    /\ Within(MaxHistory)

\* The second of the newest persisted order (0: none).
LastOrderSecond == IF orders = <<>> THEN 0 ELSE orders[Len(orders)].order_number

\* The wall clock reads second sec when the request arrives.
AtSecond(db, sec) == [db EXCEPT !.second = sec]

\* The request arrives in the second of the newest order (tick 0) or in a later one.
Ticks == IF orders = <<>> THEN {1} ELSE {0, 1}

CreateOrder ==
    /\ Open(MaxHistory)
    /\ \E items \in OrderRequests, tick \in Ticks :
          OtherAnswer(create_order(AtSecond(DB, LastOrderSecond + tick), items))
    /\ Within(MaxHistory)

-----------------------------------------------------------------------------
(* The whole single-writer system *)

Init == InitWith(BaseCatalog)

Next == Scan \/ UpdateInventory \/ UpdateVariantInventory \/ CreateOrder

Spec == Init /\ [][Next]_vars

-----------------------------------------------------------------------------
(* The scan-only system: ScanAdjust calls, single and bulk, one at a time *)

InitScan == \E cat \in ScanCatalogs : InitWith(cat)

NextScan == ScanInventory \/ BulkScanInventory

SpecScan == InitScan /\ [][NextScan]_vars

-----------------------------------------------------------------------------
(* The ledger system: a sequence of ScanAdjust calls on one catalog *)

InitLedger == InitWith(BaseCatalog)

NextLedger == LedgerScan

SpecLedger == InitLedger /\ [][NextLedger]_vars

-----------------------------------------------------------------------------
(* The flag system: ScanAdjust calls on records whose low-stock thresholds lie
   inside the range of their quantities *)

\* P2 holds 4 with threshold 2, V1 holds 1 with threshold 0.
FlagCatalog ==
    [BaseCatalog EXCEPT !.inventory[2].quantity = 4,
                        !.inventory[2].low_stock_threshold = 2,
                        !.variant_inventory[1].low_stock_threshold = 0]

InitFlags == InitWith(FlagCatalog)

FlagScan == ScanWith(LedgerRequests, MaxLogs)

NextFlags == FlagScan

SpecFlags == InitFlags /\ [][NextFlags]_vars

-----------------------------------------------------------------------------
(* The adjustment system: manual variant adjustments next to scans *)

\* quantity of PUT /variants/{variant_id}/inventory in the adjustment system.
AdjustQuantities == {0, 3}

AdjustVariantInventory ==
    /\ Open(MaxLogs)
    /\ \E variant_id \in 1..3, quantity \in AdjustQuantities,
          adjustment_type \in AdjustmentTypes :
          OtherAnswer(update_variant_inventory(DB, variant_id, quantity, adjustment_type))
    /\ Within(MaxLogs)

AdjustScan == ScanWith(LedgerRequests, MaxLogs)

InitAdjust == InitWith(BaseCatalog)

NextAdjust == AdjustVariantInventory \/ AdjustScan

SpecAdjust == InitAdjust /\ [][NextAdjust]_vars

-----------------------------------------------------------------------------
(* The activation system: products are switched off and on, looked up for an
   order and ordered *)

OrderScanRequests ==
    {OrderScanRequest(1, NoBarcode), OrderScanRequest(2, NoBarcode),
     OrderScanRequest(0, <<"SPCV", 1, 2>>), OrderScanRequest(0, <<"SPC", 2>>)}

ProductUpdates == {ProductUpdate(TRUE, FALSE), ProductUpdate(TRUE, TRUE)}

\* Single lines on each product, with and without a variant.
ActivationOrders ==
    {<<OrderItemCreate(2, 0, 1)>>, <<OrderItemCreate(1, 1, 1)>>, <<OrderItemCreate(1, 0, 1)>>}

UpdateProduct ==
    \E product_id \in 1..2, data \in ProductUpdates :
        OtherAnswer(update_product(DB, product_id, data))

ScanProductForOrder ==
    \E data \in OrderScanRequests, rows \in RowOrders(DB) :
        OtherAnswer(scan_product_for_order(DB, data, rows))

OrderLines ==
    /\ Open(MaxHistory)
    /\ \E items \in ActivationOrders, tick \in Ticks :
          OtherAnswer(create_order(AtSecond(DB, LastOrderSecond + tick), items))
    /\ Within(MaxHistory)

InitActivation == InitWith(BaseCatalog)

NextActivation == UpdateProduct \/ ScanProductForOrder \/ OrderLines

SpecActivation == InitActivation /\ [][NextActivation]_vars

-----------------------------------------------------------------------------
(* The catalog system: products and variants are created and deleted on a
   fresh database, and variant stock is adjusted *)

EmptyCatalog ==
    [products |-> <<>>, variants |-> <<>>, inventory |-> <<>>, variant_inventory |-> <<>>]

ProductCreates == {ProductCreate(NoBarcode, 0, TRUE), ProductCreate(<<"SKU", 1>>, 2, TRUE)}

VariantCreates ==
    {VariantCreate(FALSE, NoBarcode, 0, FALSE, 0),
     VariantCreate(TRUE, <<"SKU", 1>>, 1, TRUE, 0)}

CatalogIds == 1..MaxCatalog

CatalogOpen == product_seq + variant_seq < MaxCatalog

CreateProduct ==
    /\ CatalogOpen
    /\ \E data \in ProductCreates : OtherAnswer(create_product(DB, data))

DeleteProduct == \E product_id \in CatalogIds : OtherAnswer(delete_product(DB, product_id))

CreateVariant ==
    /\ CatalogOpen
    /\ \E product_id \in CatalogIds, data \in VariantCreates :
          OtherAnswer(create_variant(DB, product_id, data))

DeleteVariant == \E variant_id \in CatalogIds : OtherAnswer(delete_variant(DB, variant_id))

AdjustCatalogVariant ==
    /\ Open(MaxLogs)
    /\ \E variant_id \in CatalogIds :
          OtherAnswer(update_variant_inventory(DB, variant_id, 1, "add"))

InitCatalog == InitWith(EmptyCatalog)

NextCatalog ==
    \/ CreateProduct
    \/ DeleteProduct
    \/ CreateVariant
    \/ DeleteVariant
    \/ AdjustCatalogVariant

SpecCatalog == InitCatalog /\ [][NextCatalog]_vars

-----------------------------------------------------------------------------
(* The variant system: products are created with generated and custom
   barcodes on a fresh database, and their variants are created, updated and
   deleted, one request at a time *)

\* Bodies of POST /products: no custom SKU, a custom SKU, and a custom SKU that
\* reads "SPC" followed by digits.
BarcodeProductCreates ==
    {ProductCreate(NoBarcode, 0, TRUE), ProductCreate(<<"SKU", 1>>, 2, TRUE),
     ProductCreate(<<"SPC", 2>>, 1, TRUE)}

VariantUpdates == {VariantUpdate(TRUE, TRUE), VariantUpdate(TRUE, FALSE)}

VariantSystemIds == 1..MaxVariants

VariantsOpen == product_seq + variant_seq < MaxVariants

AddProduct ==
    /\ VariantsOpen
    /\ \E data \in BarcodeProductCreates : OtherAnswer(create_product(DB, data))

AddVariant ==
    /\ VariantsOpen
    /\ \E product_id \in VariantSystemIds, data \in VariantCreates :
          OtherAnswer(create_variant(DB, product_id, data))

UpdateVariant ==
    \E variant_id \in VariantSystemIds, data \in VariantUpdates :
        OtherAnswer(update_variant(DB, variant_id, data))

RemoveVariant ==
    \E variant_id \in VariantSystemIds : OtherAnswer(delete_variant(DB, variant_id))

InitVariants == InitWith(EmptyCatalog)

NextVariants == AddProduct \/ AddVariant \/ UpdateVariant \/ RemoveVariant

SpecVariants == InitVariants /\ [][NextVariants]_vars

-----------------------------------------------------------------------------
(* The deduction system: orders of one and several lines next to scans, manual
   sets, backorder switches and variant adjustments *)

\* P1 holds 1 and has the variants V1 (1) and V2 (2); P2 holds 3.
DeductCatalog ==
    [BaseCatalog EXCEPT !.inventory[1].quantity = 1, !.inventory[2].quantity = 3]

\* Bodies of PUT /inventory/{product_id}: the backorder flag or a negative quantity.
DeductUpdates ==
    {InventoryUpdate(FALSE, 0, TRUE, TRUE, FALSE, 0),
     InventoryUpdate(TRUE, -1, FALSE, FALSE, FALSE, 0)}

DeductScans ==
    {ScanRequest(2, NoBarcode, "scan_out", 2), ScanRequest(2, NoBarcode, "scan_out", 4),
     ScanRequest(2, NoBarcode, "scan_in", 1), ScanRequest(0, <<"SPCV", 1, 2>>, "scan_out", 2)}

\* Orders of one line with and without a variant, of several lines on one
\* product, and of a negative line quantity.
DeductOrders ==
    {<<OrderItemCreate(1, 2, 2)>>, <<OrderItemCreate(1, 1, 1)>>,
     <<OrderItemCreate(2, 0, 4)>>, <<OrderItemCreate(2, 0, -1)>>,
     <<OrderItemCreate(2, 0, 1), OrderItemCreate(2, 0, 2)>>,
     <<OrderItemCreate(2, 0, 2), OrderItemCreate(2, 0, 2)>>}

DeductUpdate ==
    /\ Open(MaxDeduct)
    /\ \E product_id \in 1..2, data \in DeductUpdates :
          OtherAnswer(update_inventory(DB, product_id, data))

DeductAdjust ==
    /\ Open(MaxDeduct)
    /\ \E variant_id \in 1..2, adjustment_type \in AdjustmentTypes :
          OtherAnswer(update_variant_inventory(DB, variant_id, 2, adjustment_type))

DeductScan ==
    /\ Open(MaxDeduct)
    /\ \E data \in DeductScans, rows \in RowOrders(DB) :
          ScanAnswer(scan_inventory(DB, data, rows), data)

DeductOrder ==
    /\ Open(MaxDeduct)
    /\ \E items \in DeductOrders, tick \in Ticks :
          OtherAnswer(create_order(AtSecond(DB, LastOrderSecond + tick), items))

InitDeduct == InitWith(DeductCatalog)

NextDeduct == DeductUpdate \/ DeductAdjust \/ DeductScan \/ DeductOrder

SpecDeduct == InitDeduct /\ [][NextDeduct]_vars

-----------------------------------------------------------------------------
(* The order system: orders and direct orders are created, moved through their
   statuses and deleted, one request at a time *)

\* Line items of the orders of the order system.
StatusOrderRequests == {<<>>, <<OrderItemCreate(2, 0, 1)>>}

DirectOrderRequests == {<<DirectOrderItemCreate(2, 0, 3)>>}

\* Statuses a client sends: members of the lists and a string outside them.
StatusRequests == {"shipped", "delivered", "refunded"}

OrderUpdates == {OrderUpdate(FALSE, "")} \cup {OrderUpdate(TRUE, s) : s \in StatusRequests}

DirectOrderUpdates ==
    {DirectOrderUpdate(FALSE, "")} \cup {DirectOrderUpdate(TRUE, s) : s \in StatusRequests}

OrderIds == 1..MaxOrders

OrdersOpen == order_seq + direct_order_seq < MaxOrders

PlaceOrder ==
    /\ OrdersOpen
    /\ \E items \in StatusOrderRequests, tick \in Ticks :
          OtherAnswer(create_order(AtSecond(DB, LastOrderSecond + tick), items))

UpdateOrder ==
    \E order_id \in OrderIds, data \in OrderUpdates :
        OtherAnswer(update_order(DB, order_id, data))

UpdateOrderStatus ==
    \E order_id \in OrderIds, status \in StatusRequests :
        OtherAnswer(update_order_status(DB, order_id, status))

DeleteOrder == \E order_id \in OrderIds : OtherAnswer(delete_order(DB, order_id))

\* The second of the newest persisted direct order (0: none).
LastDirectOrderSecond ==
    IF direct_orders = <<>> THEN 0 ELSE direct_orders[Len(direct_orders)].order_number

DirectTicks == IF direct_orders = <<>> THEN {1} ELSE {0, 1}

CreateDirectOrder ==
    /\ OrdersOpen
    /\ \E items \in DirectOrderRequests, tick \in DirectTicks :
          OtherAnswer(create_direct_order(AtSecond(DB, LastDirectOrderSecond + tick), items))

UpdateDirectOrder ==
    \E order_id \in OrderIds, data \in DirectOrderUpdates :
        OtherAnswer(update_direct_order(DB, order_id, data))

UpdateDirectOrderStatus ==
    \E order_id \in OrderIds, status \in StatusRequests :
        OtherAnswer(update_direct_order_status(DB, order_id, status))

DeleteDirectOrder == \E order_id \in OrderIds : OtherAnswer(delete_direct_order(DB, order_id))

InitOrders == InitWith(BaseCatalog)

NextOrders ==
    \/ PlaceOrder
    \/ UpdateOrder
    \/ UpdateOrderStatus
    \/ DeleteOrder
    \/ CreateDirectOrder
    \/ UpdateDirectOrder
    \/ UpdateDirectOrderStatus
    \/ DeleteDirectOrder

SpecOrders == InitOrders /\ [][NextOrders]_vars

-----------------------------------------------------------------------------
(* The concurrent system: scan requests whose reads and commits interleave *)

ConcScans ==
    {ScanRequest(2, NoBarcode, "scan_in", 1), ScanRequest(2, NoBarcode, "scan_in", 2),
     ScanRequest(2, NoBarcode, "scan_out", 1), ScanRequest(2, NoBarcode, "scan_out", 3),
     ScanRequest(0, <<"SPCV", 1, 2>>, "scan_in", 1)}

\* The request as its handler holds it between the SELECT and the flush: the
\* resolved target, the quantity read and the change computed from the request.
OpenScan(data, r, out) ==
    [data |-> data, r |-> r, previous_qty |-> out.resp.previous_quantity,
     change |-> out.resp.change]

\* The handler up to the stock check, on the committed database it reads: a
\* refused request is answered at once, an accepted one stays open.
ConcReadStep(data, r, out) ==
    IF out.resp.committed
    THEN /\ txn' = Append(txn, OpenScan(data, r, out))
         /\ UNCHANGED <<products, variants, inventory, variant_inventory, inventory_logs,
                        variant_inventory_logs, orders, order_seq, direct_orders,
                        direct_order_seq, product_seq, variant_seq, clock, second, resp,
                        applied>>
    ELSE Answer(out, <<data>>, <<out.resp>>)

ConcRead ==
    /\ Len(txn) < MaxClients
    /\ TotalLogs + Len(txn) < MaxRace
    /\ \E data \in ConcScans, rows \in RowOrders(DB) :
          ConcReadStep(data, ResolveScan(DB, data, rows), scan_inventory(DB, data, rows))

\* The database refuses the commit of a request because another request committed
\* to the same row since this one read it.  There is no row lock, no version
\* column and no serialization check: it never does.
CommitRefused(db, t) == FALSE

\* The rest of the handler of an open request, on the database as it is now
\* committed: the UPDATE with the quantity computed from the value read, the log
\* row, the commit and the response.
ConcCommitStep(t, i) ==
    /\ ~CommitRefused(DB, t)
    /\ Store(ScanCommit(DB, t.data, t.r, t.previous_qty, t.change))
    /\ resp' = ScanCommitted(ScanCommit(DB, t.data, t.r, t.previous_qty, t.change), t.r,
                             t.previous_qty, t.previous_qty + t.change, t.change).resp
    /\ applied' = [applied EXCEPT ![t.r.inventory] = Append(@, t.change)]
    /\ txn' = Without(txn, i)

ConcCommit == \E i \in 1..Len(txn) : ConcCommitStep(txn[i], i)

InitConc == InitWith(BaseCatalog)

NextConc == ConcRead \/ ConcCommit

SpecConc == InitConc /\ [][NextConc]_vars

-----------------------------------------------------------------------------
(* Properties *)

Sum(seq) ==
    LET acc[i \in 0..Len(seq)] == IF i = 0 THEN 0 ELSE acc[i - 1] + seq[i]
    IN acc[Len(seq)]

\* The log rows of one Inventory Record.
LogsOf(rec) ==
    LET Mine(row) == row.inventory_id = rec.id
    IN IF rec.kind = "P" THEN SelectSeq(inventory_logs, Mine)
       ELSE SelectSeq(variant_inventory_logs, Mine)

InitialQuantity(rec) ==
    IF rec.kind = "P" THEN BaseCatalog.inventory[rec.id].quantity
    ELSE BaseCatalog.variant_inventory[rec.id].quantity

\* C1: after any sequence of scan_in / scan_out calls applied one at a time, the
\* quantity of every Inventory Record is its initial quantity plus the sum of the
\* signed counts of the calls that mutated it, and the record has as many log rows
\* as there were such calls.
C1_ScanLedger ==
    \A rec \in DOMAIN applied :
        /\ Quantity(DB, rec) = InitialQuantity(rec) + Sum(applied[rec])
        /\ Len(LogsOf(rec)) = Len(applied[rec])

\* A record that took three scans, in both directions.
C1_Witness ==
    /\ resp.op = "scan" /\ resp.status = 200
    /\ \E rec \in DOMAIN applied :
          /\ Len(applied[rec]) = 3
          /\ \E i, j \in 1..3 : applied[rec][i] > 0 /\ applied[rec][j] < 0

-----------------------------------------------------------------------------
(* Properties of the whole system: every request in every reachable state *)

\* scan_out requests by id, by variant barcode and by product barcode.
ScanOuts ==
    {ScanRequest(p, NoBarcode, "scan_out", q) : p \in 1..2, q \in {-3, 1, 2, 5}}
    \cup {ScanRequest(p, b, "scan_out", q) :
            p \in {0, 2}, b \in {<<"SPCV", 1, 2>>, <<"SKU", 2>>}, q \in {-3, 2}}

\* C2: a scan_out whose count exceeds the current quantity of the record it
\* resolves to fails with InsufficientStock and leaves the database (the record's
\* quantity and last_scanned_at, every log row, everything else) as it was.
C2_ScanOutInsufficient ==
    \A data \in ScanOuts, rows \in RowOrders(DB) :
        LET r == ResolveScan(DB, data, rows)
            out == scan_inventory(DB, data, rows)
        IN (r.inventory # NoRec /\ abs(data.quantity) > Quantity(DB, r.inventory))
           => /\ out.resp.status = 400
              /\ out.resp.detail = "InsufficientStock"
              /\ out.db = DB

\* A scan_out was refused on a product record that had been scanned before.
C2_Witness ==
    /\ resp.op = "scan" /\ resp.status = 400 /\ resp.detail = "InsufficientStock"
    /\ resp.target.kind = "P"
    /\ inventory[resp.target.id].last_scanned_at # 0
    /\ LogsOf(resp.target) # <<>>

\* C3: every log row, product-level or variant-level, satisfies
\* quantity_after = quantity_before + quantity_change.
C3_LogArithmetic ==
    /\ \A i \in 1..Len(inventory_logs) :
          inventory_logs[i].quantity_after =
              inventory_logs[i].quantity_before + inventory_logs[i].quantity_change
    /\ \A i \in 1..Len(variant_inventory_logs) :
          variant_inventory_logs[i].quantity_after =
              variant_inventory_logs[i].quantity_before
                  + variant_inventory_logs[i].quantity_change

\* The log rows a request added for one record.
NewRows(before, after, rec) ==
    LET Mine(row) == row.inventory_id = rec.id
    IN IF rec.kind = "P"
       THEN SelectSeq(SubSeq(after.inventory_logs, Len(before.inventory_logs) + 1,
                             Len(after.inventory_logs)), Mine)
       ELSE SelectSeq(SubSeq(after.variant_inventory_logs,
                             Len(before.variant_inventory_logs) + 1,
                             Len(after.variant_inventory_logs)), Mine)

\* A successful request wrote exactly one log row, carrying the quantity read
\* before the change, for every record whose quantity it changed.
ChangeLogged(before, out) ==
    out.resp.status = 200 =>
        \A rec \in Records(before) :
            Quantity(out.db, rec) # Quantity(before, rec) =>
                /\ Len(NewRows(before, out.db, rec)) = 1
                /\ NewRows(before, out.db, rec)[1].quantity_before = Quantity(before, rec)

\* C4: every successful operation that changes the quantity of an Inventory Record
\* (scan, manual set, variant set/add/remove, the deduction of an order line)
\* appends exactly one log row for that record, with quantity_before the quantity
\* read before the change.
C4_ChangeLogged ==
    /\ \A data \in SystemScans, rows \in RowOrders(DB) :
          ChangeLogged(DB, scan_inventory(DB, data, rows))
    /\ \A product_id \in 1..2, data \in UpdateRequests :
          ChangeLogged(DB, update_inventory(DB, product_id, data))
    /\ \A variant_id \in 1..2, quantity \in VariantQuantities,
          adjustment_type \in AdjustmentTypes :
          ChangeLogged(DB, update_variant_inventory(DB, variant_id, quantity,
                                                    adjustment_type))
    /\ \A item_data \in OrderItems :
          ChangeLogged(DB, create_order(AtSecond(DB, LastOrderSecond + 1), <<item_data>>))

\* Orders of one, two and three lines.
OrderProbes ==
    OrderRequests
    \cup {<<a, b>> : a \in {OrderItemCreate(2, 0, -1), OrderItemCreate(2, 0, 1)},
                     b \in {OrderItemCreate(2, 0, 2), OrderItemCreate(1, 2, 3)}}

\* The line's product record holds less than the line asks for and does not allow
\* backorder.
Insufficient(tables, item_data) ==
    /\ item_data.product_id \in DOMAIN products
    /\ item_data.product_id \in DOMAIN tables.inventory
    /\ tables.inventory[item_data.product_id].quantity < item_data.quantity
    /\ ~tables.inventory[item_data.product_id].allow_backorder

\* The inventory tables as line i of the order found them.
TablesBefore(staged, i) == IF i = 1 THEN DB ELSE staged[i - 1]

\* The committed orders, logs and inventory records are those before the request.
NothingPersisted(out) ==
    /\ out.db.orders = orders
    /\ out.db.inventory_logs = inventory_logs
    /\ out.db.variant_inventory_logs = variant_inventory_logs
    /\ out.db.inventory = inventory
    /\ out.db.variant_inventory = variant_inventory

\* C5: a CreateOrder one of whose line items finds insufficient stock with
\* backorder disallowed (against the stock before the call when all line
\* quantities are positive; against the stock the line's turn finds in any case)
\* fails, and afterwards no order, no line item and no log row has been added and
\* every Inventory Record has its original quantity.
C5_OrderAllOrNothing ==
    \A items \in OrderProbes, tick \in Ticks :
        LET out == create_order(AtSecond(DB, LastOrderSecond + tick), items)
        IN (\/ /\ \A i \in 1..Len(items) : items[i].quantity > 0
               /\ \E i \in 1..Len(items) : Insufficient(DB, items[i])
            \/ \E i \in 1..Len(items) :
                  /\ i <= Len(out.resp.staged) + 1
                  /\ Insufficient(TablesBefore(out.resp.staged, i), items[i]))
           => out.resp.status # 200 /\ NothingPersisted(out)

\* A three-line order failed on its last line after ledger rows had been written.
C5_Witness ==
    /\ resp.op = "create_order" /\ resp.status = 400
    /\ resp.detail = "InsufficientStock" /\ resp.line = 3
    /\ History > 0

\* C6 as stated: when a line fails its stock check, no record has been
\* decremented at any point of the call.
C6_ChecksBeforeAnyMutation ==
    \A items \in OrderProbes :
        LET out == create_order(AtSecond(DB, LastOrderSecond + 1), items)
        IN out.resp.detail = "InsufficientStock" =>
              \A k \in 1..Len(out.resp.staged) :
                  /\ out.resp.staged[k].inventory = inventory
                  /\ out.resp.staged[k].variant_inventory = variant_inventory

\* C6: each line's stock check precedes that line's own deduction only.  When line
\* L fails its stock check, the lines before it have already been deducted from
\* the working copy of the unit of work, line L itself changes no record, and the
\* failure discards the working copy: the stored quantities are never lowered.
C6_StagedThenDiscarded ==
    \A items \in OrderProbes :
        LET out == create_order(AtSecond(DB, LastOrderSecond + 1), items)
            staged == out.resp.staged
        IN out.resp.detail = "InsufficientStock" =>
              /\ staged[out.resp.line].inventory =
                     TablesBefore(staged, out.resp.line).inventory
              /\ staged[out.resp.line].variant_inventory =
                     TablesBefore(staged, out.resp.line).variant_inventory
              /\ \A k \in 1..(out.resp.line - 1) :
                    items[k].product_id \in DOMAIN inventory =>
                        staged[k].inventory[items[k].product_id].quantity =
                            max(0, TablesBefore(staged, k).inventory[items[k].product_id].quantity
                                   - items[k].quantity)
              /\ NothingPersisted(out)

\* The second line of an order failed after the first had lowered a record in the
\* working copy.
C6_Witness ==
    /\ resp.op = "create_order" /\ resp.detail = "InsufficientStock" /\ resp.line = 2
    /\ resp.staged[1].inventory # inventory

-----------------------------------------------------------------------------
(* Properties of the scan-only system *)

\* The request is a scan_in, or a scan_out the record has the stock for.
ScanAccepted(data, rec) ==
    \/ data.action = "scan_in"
    \/ data.action = "scan_out" /\ abs(data.quantity) <= Quantity(DB, rec)

\* The request changed the quantity of rec by its signed count and nothing of any
\* other record.
OnlyAdjusted(out, data, rec) ==
    /\ Quantity(out.db, rec) = Quantity(DB, rec) + SignedCount(data)
    /\ \A other \in Records(DB) \ {rec} : Quantity(out.db, other) = Quantity(DB, other)

\* C8 as stated: a bulk scan leaves the database that submitting its scans one by
\* one, in request order, leaves; every scan is counted as a success or an error.
C8_BulkAsSingles ==
    \A scans \in BulkRequests :
    \A rows \in [1..Len(scans) -> RowOrders(DB)] :
        LET single[i \in 0..Len(scans)] ==
                IF i = 0 THEN DB ELSE scan_inventory(single[i - 1], scans[i], rows[i]).db
            out == bulk_scan_inventory(DB, scans, rows)
        IN /\ out.db = single[Len(scans)]
           /\ out.resp.success_count + out.resp.error_count = Len(scans)

\* C9: a scan whose barcode is a variant's barcode resolves to that variant's own
\* Inventory Record, whatever product_id it also carries; when accepted it changes
\* that record by the signed count, appends one variant log row for it, and leaves
\* every product-level record and the product log as they were.
C9_VariantBarcode ==
    \A data \in ScanRequests, rows \in RowOrders(DB) :
    \A v \in DOMAIN variants :
        LET out == scan_inventory(DB, data, rows)
        IN (data.barcode # NoBarcode /\ variants[v].barcode = data.barcode) =>
              /\ out.resp.target = VRec(v)
              /\ ScanAccepted(data, VRec(v)) =>
                    /\ out.resp.committed
                    /\ OnlyAdjusted(out, data, VRec(v))
                    /\ Len(NewRows(DB, out.db, VRec(v))) = 1
                    /\ Len(out.db.variant_inventory_logs) = Len(variant_inventory_logs) + 1
              /\ out.db.inventory = inventory
              /\ out.db.inventory_logs = inventory_logs

\* A scan carrying the barcode the first variant inherited from its product, and
\* the id of another product, adjusted the variant's record.
C9_Witness ==
    /\ resp.op = "scan" /\ resp.status = 200 /\ resp.by = "variant_barcode"
    /\ resp.target.kind = "V"
    /\ variants[resp.target.id].barcode = products[1].barcode
    /\ Len(variant_inventory_logs) = 2

\* The variants of product p.
VariantsOf(p) == {v \in DOMAIN variants : variants[v].product_id = p}

\* The record a product resolves to: its default-flagged variant's; the record of
\* a variant first in sort order when none is flagged; its own when it has no
\* variants.
ProductTarget(p, rec) ==
    IF VariantsOf(p) = {}
    THEN rec = PRec(p)
    ELSE /\ rec.kind = "V"
         /\ rec.id \in VariantsOf(p)
         /\ IF \E v \in VariantsOf(p) : variants[v].is_default
            THEN variants[rec.id].is_default
            ELSE \A v \in VariantsOf(p) :
                    variants[rec.id].sort_order <= variants[v].sort_order

\* The product a request names when no variant carries its barcode: by id, else by
\* the id its barcode decodes to, else by the stored product barcode.
NamedProducts(data) ==
    IF data.product_id # 0 THEN {data.product_id} \cap DOMAIN products
    ELSE IF data.barcode = NoBarcode THEN {}
    ELSE IF data.barcode[1] = "SPC" THEN {data.barcode[2]} \cap DOMAIN products
    ELSE {p \in DOMAIN products : products[p].barcode = data.barcode}

\* C10: a scan resolved to a product with variants targets the variant flagged
\* is_default, wherever it stands in sort order, and a variant first in sort order
\* when none is flagged; a product-level record is targeted only for a product
\* without variants; an accepted scan adjusts the targeted record and no other.
C10_DefaultVariant ==
    \A data \in ScanRequests, rows \in RowOrders(DB) :
        LET out == scan_inventory(DB, data, rows)
        IN /\ \A p \in NamedProducts(data) :
                 (data.barcode = NoBarcode \/ VariantByBarcode(DB, data.barcode) = {}) =>
                    /\ ProductTarget(p, out.resp.target)
                    /\ ScanAccepted(data, out.resp.target) =>
                          out.resp.committed /\ OnlyAdjusted(out, data, out.resp.target)
           /\ out.resp.target.kind = "P" => VariantsOf(out.resp.target.id) = {}

\* A scan by product id adjusted the default variant although it comes second in
\* sort order.
C10_Witness ==
    /\ resp.op = "scan" /\ resp.status = 200 /\ resp.by = "product_id"
    /\ resp.target.kind = "V"
    /\ variants[resp.target.id].is_default
    /\ \E v \in VariantsOf(variants[resp.target.id].product_id) :
          variants[v].sort_order < variants[resp.target.id].sort_order

-----------------------------------------------------------------------------
(* Properties of the concurrent system *)

\* C7: with concurrent scans the later commit overwrites the earlier one.  The
\* stored quantity of a record is always what its newest log row computed from
\* the quantity that row's request read (quantity_before + quantity_change),
\* whatever other requests committed in between; every log row stays as written.
C7_LaterCommitOverwrites ==
    \A rec \in DOMAIN applied :
        /\ Len(LogsOf(rec)) = Len(applied[rec])
        /\ LogsOf(rec) # <<>> =>
              Quantity(DB, rec) =
                  LogsOf(rec)[Len(LogsOf(rec))].quantity_before
                      + LogsOf(rec)[Len(LogsOf(rec))].quantity_change

\* Two requests read the same quantity of one record and both committed: both log
\* rows carry that quantity_before, the stored quantity holds the later delta
\* only, and the log no longer adds up to it.
C7_Witness ==
    /\ txn = <<>>
    /\ resp.op = "scan" /\ resp.status = 200
    /\ \E rec \in DOMAIN applied :
          /\ Len(LogsOf(rec)) = 2
          /\ LogsOf(rec)[1].quantity_before = InitialQuantity(rec)
          /\ LogsOf(rec)[2].quantity_before = InitialQuantity(rec)
          /\ LogsOf(rec)[1].quantity_change # 0
          /\ Quantity(DB, rec) = InitialQuantity(rec) + LogsOf(rec)[2].quantity_change
          /\ Quantity(DB, rec) # InitialQuantity(rec) + Sum(applied[rec])

-----------------------------------------------------------------------------
(* Order status *)

\* Every status a request may carry: the six of the list and one outside it.
StatusProbes == valid_statuses \cup {"refunded"}

\* The row keeps the stamps it has, and a stamp it has not is written exactly
\* by the request that sets the status of that name, with the clock reading.
StampsKept(row, after, status, now) ==
    /\ after.shipped_at =
          IF row.shipped_at = 0 /\ status = "shipped" THEN now ELSE row.shipped_at
    /\ after.delivered_at =
          IF row.delivered_at = 0 /\ status = "delivered" THEN now ELSE row.delivered_at

\* C11: whatever status a quick update-status or a general update sets on an
\* order, regular or direct, shipped_at is written when the order is first set
\* to "shipped" and delivered_at when it is first set to "delivered", with the
\* time of that request, and a stamp once written keeps its value under every
\* later status update, the one that sets the same status again included.
C11_StampedOnce ==
    /\ \A i \in 1..Len(orders), status \in StatusProbes :
          /\ LET out == update_order_status(DB, orders[i].id, status)
             IN  out.resp.status = 200
                    => StampsKept(orders[i], out.db.orders[i], status, clock)
          /\ LET out == update_order(DB, orders[i].id, OrderUpdate(TRUE, status))
             IN  StampsKept(orders[i], out.db.orders[i], status, clock)
          /\ update_order(DB, orders[i].id, OrderUpdate(FALSE, "")).db.orders[i] = orders[i]
    /\ \A i \in 1..Len(direct_orders), status \in StatusProbes :
          /\ LET out == update_direct_order_status(DB, direct_orders[i].id, status)
             IN  out.resp.status = 200
                    => StampsKept(direct_orders[i], out.db.direct_orders[i], status, clock)
          /\ LET out == update_direct_order(DB, direct_orders[i].id,
                                            DirectOrderUpdate(TRUE, status))
             IN  StampsKept(direct_orders[i], out.db.direct_orders[i], status, clock)
          /\ update_direct_order(DB, direct_orders[i].id,
                                 DirectOrderUpdate(FALSE, "")).db.direct_orders[i]
                = direct_orders[i]

\* An order was shipped, then delivered, then set to "shipped" again: it keeps
\* the stamp of its first shipment, older than its delivery.
C11_Witness ==
    /\ resp.op \in {"update_order_status", "update_order", "update_direct_order_status",
                    "update_direct_order"}
    /\ resp.status = 200
    /\ \E o \in {orders[i] : i \in 1..Len(orders)}
              \cup {direct_orders[i] : i \in 1..Len(direct_orders)} :
          /\ o.status = "shipped"
          /\ o.shipped_at # 0
          /\ o.delivered_at > o.shipped_at

\* C12: in every reachable state the status of every regular order is one of
\* pending, processing, packed, shipped, delivered, cancelled, and the status of
\* every direct order is one of the same without packed.
C12_ClosedStatusSet ==
    /\ \A i \in 1..Len(orders) : orders[i].status \in valid_statuses
    /\ \A i \in 1..Len(direct_orders) : direct_orders[i].status \in direct_valid_statuses

-----------------------------------------------------------------------------
(* Scan response *)

\* C13: a scan that succeeds answers with previous_quantity the quantity the
\* record held before the call, new_quantity that quantity plus the signed
\* count (the quantity the record now holds), is_in_stock exactly when
\* new_quantity > 0 and is_low_stock exactly when new_quantity is at most the
\* low_stock_threshold of the adjusted record.
C13_ScanResponseFlags ==
    \A data \in ScanRequests, rows \in RowOrders(DB) :
        LET r == ResolveScan(DB, data, rows)
            out == scan_inventory(DB, data, rows)
        IN out.resp.status = 200
           => /\ out.resp.previous_quantity = Quantity(DB, r.inventory)
              /\ out.resp.new_quantity = Quantity(DB, r.inventory) + SignedCount(data)
              /\ Quantity(out.db, r.inventory) = out.resp.new_quantity
              /\ out.resp.is_in_stock <=> out.resp.new_quantity > 0
              /\ out.resp.is_low_stock <=>
                    out.resp.new_quantity <=
                        (IF r.inventory.kind = "P"
                         THEN inventory[r.inventory.id].low_stock_threshold
                         ELSE variant_inventory[r.inventory.id].low_stock_threshold)

\* A scan_out left a product record in stock and low, after an earlier scan_out
\* had left it above its threshold.
C13_Witness ==
    /\ resp.op = "scan" /\ resp.status = 200
    /\ resp.change < 0
    /\ resp.is_in_stock /\ resp.is_low_stock
    /\ resp.target.kind = "P"
    /\ \E i \in 1..Len(inventory_logs) :
          /\ inventory_logs[i].inventory_id = resp.target.id
          /\ inventory_logs[i].action = "scan_out"
          /\ inventory_logs[i].quantity_after > inventory[resp.target.id].low_stock_threshold

-----------------------------------------------------------------------------
(* Manual variant adjustment *)

\* Scans out of a variant record, by the product, by a barcode and by both.
VariantScanOuts(n) ==
    {ScanRequest(p, b, "scan_out", n) : p \in 0..1, b \in {NoBarcode, <<"SPCV", 1, 2>>}}

\* C14: a manual "remove" of more than a variant record holds succeeds and
\* leaves the record at exactly 0, while a scan_out of the same count on the
\* same record is refused with InsufficientStock and changes nothing.
C14_RemoveClamps ==
    \A variant_id \in DOMAIN variant_inventory, n \in 1..4 :
        n > variant_inventory[variant_id].quantity
        => /\ LET out == update_variant_inventory(DB, variant_id, n, "remove")
              IN /\ out.resp.status = 200
                 /\ out.db.variant_inventory[variant_id].quantity = 0
           /\ \A data \in VariantScanOuts(n), rows \in RowOrders(DB) :
                 ResolveScan(DB, data, rows).inventory = VRec(variant_id)
                 => LET out == scan_inventory(DB, data, rows)
                    IN /\ out.resp.status = 400
                       /\ out.resp.detail = "InsufficientStock"
                       /\ out.db = DB

\* The last request was a manual adjustment that removed from a variant record
\* less than any amount a removal may ask for, and left it at 0.
C14_Witness ==
    /\ resp.op = "update_variant_inventory" /\ resp.status = 200
    /\ variant_inventory_logs # <<>>
    /\ LET row == variant_inventory_logs[Len(variant_inventory_logs)]
       IN /\ row.action = "remove"
          /\ row.inventory_id = resp.target.id
          /\ row.quantity_before > 0
          /\ \A q \in AdjustQuantities \ {0} : row.quantity_before < q
          /\ row.quantity_after = 0
          /\ variant_inventory[resp.target.id].quantity = 0

-----------------------------------------------------------------------------
(* Order-time deduction of variant records *)

\* Single lines that name a variant, with and without its product.
VariantLineProbes ==
    {OrderItemCreate(p, v, n) : p \in 0..1, v \in 1..2, n \in 1..3}

\* C15: a CreateOrder with a line whose variant record holds less than the
\* line asks for fails with InsufficientStock (a variant record has no backorder
\* flag to allow it) and persists nothing.
C15_VariantInsufficientStock ==
    \A line \in VariantLineProbes :
        LET out == create_order(AtSecond(DB, LastOrderSecond + 1), <<line>>)
        IN (/\ line.variant_id \in DOMAIN variant_inventory
            /\ variant_inventory[line.variant_id].quantity < line.quantity)
           => /\ out.resp.status = 400
              /\ out.resp.detail = "InsufficientStock"
              /\ NothingPersisted(out)

-----------------------------------------------------------------------------
(* last_scanned_at *)

\* The step committed a scan_in or scan_out on the product record p: it wrote
\* the one new row of inventory_logs, for p.
ScannedIn(p) ==
    /\ Len(inventory_logs') = Len(inventory_logs) + 1
    /\ inventory_logs'[Len(inventory_logs')].action \in {"scan_in", "scan_out"}
    /\ inventory_logs'[Len(inventory_logs')].inventory_id = p

\* The step created an order with a line on product p.
OrderedIn(p) ==
    /\ Len(orders') = Len(orders) + 1
    /\ \E i \in 1..Len(orders'[Len(orders')].items) :
          orders'[Len(orders')].items[i].product_id = p

Restamped(p) == inventory'[p].last_scanned_at # inventory[p].last_scanned_at

\* C16 as stated: last_scanned_at of a product record changes only in a step
\* that commits a scan_in or scan_out on that record; a manual update and the
\* creation of an order leave it as it was.
C16_OnlyScansStamp ==
    [][\A p \in DOMAIN inventory : Restamped(p) => ScannedIn(p)]_vars

\* C16 amended: last_scanned_at of a product record changes only in a step that
\* commits a scan_in or scan_out on that record or creates an order with a line
\* on its product; the creation of an order stamps every product record it
\* deducts from, and a manual update leaves the stamp as it was.
C16_ScansAndOrdersStamp ==
    [][\A p \in DOMAIN inventory :
          /\ Restamped(p) => ScannedIn(p) \/ OrderedIn(p)
          /\ OrderedIn(p) => inventory'[p].last_scanned_at >= clock
          /\ resp'.op = "update_inventory" => ~Restamped(p)]_vars

\* An order has just been created and the record of a product of its lines
\* carries the stamp of that request, on top of a manual adjustment logged
\* before.
C16_Witness ==
    /\ resp.op = "create_order" /\ resp.status = 200
    /\ orders # <<>>
    /\ \E i \in 1..Len(orders[Len(orders)].items) :
          LET p == orders[Len(orders)].items[i].product_id
          IN /\ p \in DOMAIN inventory
             /\ inventory[p].last_scanned_at = clock - 1
             /\ \E k \in 1..Len(inventory_logs) :
                   /\ inventory_logs[k].inventory_id = p
                   /\ inventory_logs[k].action = "adjustment"

-----------------------------------------------------------------------------
(* Which calls write a ledger row *)

\* Rows the request added to the two ledgers.
RowsAdded(out) ==
    Len(out.db.inventory_logs) + Len(out.db.variant_inventory_logs) - TotalLogs

\* Amounts of a manual variant adjustment.
AdjustProbes == 0..3

\* Every committed scan, of count 0 included, writes exactly one row.
ScansLogged ==
    \A data \in ScanRequests, rows \in RowOrders(DB) :
        LET out == scan_inventory(DB, data, rows)
        IN RowsAdded(out) = IF out.resp.committed THEN 1 ELSE 0

\* C17 as stated: every successful add, remove, scan_in and scan_out writes a
\* log row, an add of 0, a remove on a record at 0 and a scan of count 0
\* included; a "set" writes one exactly when the new quantity differs from the
\* old.
C17_AlwaysLogged ==
    /\ ScansLogged
    /\ \A variant_id \in DOMAIN variant_inventory, n \in AdjustProbes :
          /\ RowsAdded(update_variant_inventory(DB, variant_id, n, "add")) = 1
          /\ RowsAdded(update_variant_inventory(DB, variant_id, n, "remove")) = 1
          /\ RowsAdded(update_variant_inventory(DB, variant_id, n, "set")) =
                IF n # variant_inventory[variant_id].quantity THEN 1 ELSE 0

\* C17 amended: every committed scan_in and scan_out writes exactly one log
\* row, a scan of count 0 included; a manual variant adjustment (set, add or
\* remove) writes one exactly when the quantity it leaves differs from the
\* quantity it found, so an add of 0, a remove of 0 and a remove on a record at
\* 0 write none; a manual product set writes one exactly when the quantity it
\* sets differs from the old.
C17_LoggedWhenChanged ==
    /\ ScansLogged
    /\ \A variant_id \in DOMAIN variant_inventory, n \in AdjustProbes,
          adjustment_type \in AdjustmentTypes :
          LET out == update_variant_inventory(DB, variant_id, n, adjustment_type)
          IN /\ out.resp.status = 200
             /\ RowsAdded(out) =
                   IF out.db.variant_inventory[variant_id].quantity
                         # variant_inventory[variant_id].quantity
                   THEN 1 ELSE 0
    /\ \A variant_id \in DOMAIN variant_inventory :
          /\ RowsAdded(update_variant_inventory(DB, variant_id, 0, "add")) = 0
          /\ RowsAdded(update_variant_inventory(DB, variant_id, 0, "remove")) = 0
          /\ variant_inventory[variant_id].quantity = 0
                => \A n \in AdjustProbes :
                      RowsAdded(update_variant_inventory(DB, variant_id, n, "remove")) = 0
    /\ \A product_id \in DOMAIN inventory, n \in AdjustProbes :
          RowsAdded(update_inventory(DB, product_id,
                                     InventoryUpdate(TRUE, n, FALSE, FALSE, FALSE, 0))) =
             IF n # inventory[product_id].quantity THEN 1 ELSE 0

\* A manual adjustment of a variant record has just succeeded and the ledger
\* holds no row of that record, next to a row of another: the adjustment (an
\* add or a remove of 0) wrote none.
C17_Witness ==
    /\ resp.op = "update_variant_inventory" /\ resp.status = 200
    /\ \A k \in 1..Len(variant_inventory_logs) :
          variant_inventory_logs[k].inventory_id # resp.target.id
    /\ TotalLogs > 0

-----------------------------------------------------------------------------
(* Inactive products *)

\* Lookups by id and by every barcode of the catalog.
OrderScanProbes ==
    {OrderScanRequest(p, b) : p \in 0..3, b \in ScanBarcodes}

\* The product a lookup finds: the parent of the variant that carries the
\* barcode, else the product with the id, the decoded id or the barcode.
ScannedProduct(data) ==
    IF data.barcode # NoBarcode /\ VariantByBarcode(DB, data.barcode) # {}
    THEN {variants[v].product_id : v \in VariantByBarcode(DB, data.barcode)}
    ELSE OrderScanProducts(DB, data)

\* C18: the order-scan lookup of an inactive product is refused with
\* ProductInactive, and no order is persisted with a line item (and its
\* deduction) on a product that is inactive when the order is created.
C18_InactiveNeverOrdered ==
    /\ \A data \in OrderScanProbes, rows \in RowOrders(DB) :
          (\E p \in ScannedProduct(data) : ~products[p].is_active)
          => LET out == scan_product_for_order(DB, data, rows)
             IN out.resp.status = 400 /\ out.resp.detail = "ProductInactive"
    /\ \A items \in OrderProbes :
          LET out == create_order(AtSecond(DB, LastOrderSecond + 1), items)
          IN out.resp.status = 200
             => \A i \in 1..Len(items) :
                   items[i].product_id \in DOMAIN products
                   => products[items[i].product_id].is_active

-----------------------------------------------------------------------------
(* Direct orders and the inventory *)

\* Lines of a direct order: products and variants that exist and that do not,
\* quantities below, at and above what the records hold.
DirectLineProbes ==
    {DirectOrderItemCreate(p, v, n) : p \in 0..3, v \in 0..2, n \in {-1, 1, 5}}

DirectOrderProbes ==
    {<<>>} \cup {<<a>> : a \in DirectLineProbes}
    \cup {<<a, DirectOrderItemCreate(2, 0, 1)>> : a \in DirectLineProbes}

\* The inventory records and both ledgers are those before the request.
InventoryUntouched(out) ==
    /\ out.db.inventory = inventory
    /\ out.db.variant_inventory = variant_inventory
    /\ out.db.inventory_logs = inventory_logs
    /\ out.db.variant_inventory_logs = variant_inventory_logs

\* C19: creating a direct order, whatever product, variant and quantity its
\* lines carry, updating it, changing its status and deleting it leave every
\* Inventory Record and every Inventory Log as they were.
C19_DirectOrdersLeaveInventory ==
    /\ \A items \in DirectOrderProbes, tick \in DirectTicks :
          InventoryUntouched(
              create_direct_order(AtSecond(DB, LastDirectOrderSecond + tick), items))
    /\ \A order_id \in 1..(direct_order_seq + 1) :
          /\ \A status \in StatusProbes :
                /\ InventoryUntouched(update_direct_order_status(DB, order_id, status))
                /\ InventoryUntouched(
                       update_direct_order(DB, order_id, DirectOrderUpdate(TRUE, status)))
          /\ InventoryUntouched(
                 update_direct_order(DB, order_id, DirectOrderUpdate(FALSE, "")))
          /\ InventoryUntouched(delete_direct_order(DB, order_id))

\* A direct order with a line of 3 on a product that holds less has been
\* created, stamped by a status update and then deleted: the records and the ledgers are those of
\* the initial catalog.
C19_Witness ==
    /\ resp.op = "delete_direct_order" /\ resp.status = 200
    /\ direct_order_seq > 0
    /\ direct_orders = <<>>
    /\ clock > 1
    /\ inventory = BaseCatalog.inventory
    /\ variant_inventory = BaseCatalog.variant_inventory
    /\ TotalLogs = 0

-----------------------------------------------------------------------------
(* One Inventory Record per product and per variant *)

ProductCreateProbes ==
    {ProductCreate(b, q, a) : b \in {NoBarcode, <<"SKU", 1>>, <<"SPC", 2>>}, q \in {0, 2},
                              a \in BOOLEAN}

VariantCreateProbes ==
    {VariantCreate(s, b, q, d, 0) : s \in BOOLEAN, b \in {NoBarcode, <<"SKU", 1>>},
                                    q \in {0, 1}, d \in BOOLEAN}

\* The tables pair every product and every variant with a record of its own,
\* and hold no record and no variant of a product or variant that is gone.
OneRecordEach(db) ==
    /\ DOMAIN db.inventory = DOMAIN db.products
    /\ DOMAIN db.variant_inventory = DOMAIN db.variants
    /\ \A v \in DOMAIN db.variants : db.variants[v].product_id \in DOMAIN db.products

\* C20: in every state reached by creating and deleting products and variants,
\* every existing product has its one product-level Inventory Record and every
\* existing variant its one variant-level record, a deleted product or variant
\* has none; a creation adds the record together with its parent and a
\* deletion removes it with its parent.
C20_OneRecordEach ==
    /\ OneRecordEach(DB)
    /\ \A data \in ProductCreateProbes :
          LET out == create_product(DB, data)
          IN /\ OneRecordEach(out.db)
             /\ out.resp.status = 201
                => /\ out.resp.id \notin DOMAIN products
                   /\ out.resp.id \in DOMAIN out.db.products
                   /\ out.db.inventory[out.resp.id].quantity = data.initial_quantity
    /\ \A product_id \in 1..(product_seq + 1), data \in VariantCreateProbes :
          LET out == create_variant(DB, product_id, data)
          IN /\ OneRecordEach(out.db)
             /\ out.resp.status = 201
                => /\ out.resp.id \notin DOMAIN variants
                   /\ out.resp.id \in DOMAIN out.db.variant_inventory
                   /\ out.db.variants[out.resp.id].product_id = product_id
    /\ \A product_id \in 1..(product_seq + 1) :
          LET out == delete_product(DB, product_id)
          IN /\ OneRecordEach(out.db)
             /\ out.resp.status = 200
                => /\ product_id \notin DOMAIN out.db.inventory
                   /\ \A v \in VariantIds(DB, product_id) :
                         v \notin DOMAIN out.db.variant_inventory
    /\ \A variant_id \in 1..(variant_seq + 1) :
          LET out == delete_variant(DB, variant_id)
          IN /\ OneRecordEach(out.db)
             /\ out.resp.status = 204 => variant_id \notin DOMAIN out.db.variant_inventory

\* A variant has just been deleted next to a sibling that stays: the product
\* and the sibling have their records, the deleted variant has none.
C20_Witness ==
    /\ resp.op = "delete_variant" /\ resp.status = 204
    /\ resp.id \notin DOMAIN variant_inventory
    /\ \E v \in DOMAIN variants :
          /\ v \in DOMAIN variant_inventory
          /\ variants[v].product_id \in DOMAIN inventory

-----------------------------------------------------------------------------
(* Properties of the deduction system *)

\* Single lines that carry a product and one of its variants.
PairedLineProbes == {OrderItemCreate(1, v, n) : v \in 1..2, n \in 1..3}

\* C21: an accepted CreateOrder line that carries a product_id and a variant_id
\* with quantity N lowers the product's own record to max(0, q - N) and the
\* variant's own record to max(0, q - N): both records are decremented for the
\* same line, and no other record changes.
C21_BothRecordsDeducted ==
    \A line \in PairedLineProbes :
        LET out == create_order(AtSecond(DB, LastOrderSecond + 1), <<line>>)
            p == line.product_id
            v == line.variant_id
        IN out.resp.status = 200 =>
              /\ out.db.inventory[p].quantity =
                     max(0, inventory[p].quantity - line.quantity)
              /\ out.db.variant_inventory[v].quantity =
                     max(0, variant_inventory[v].quantity - line.quantity)
              /\ \A o \in DOMAIN inventory \ {p} : out.db.inventory[o] = inventory[o]
              /\ \A o \in DOMAIN variant_inventory \ {v} :
                    out.db.variant_inventory[o] = variant_inventory[o]

\* An order of one line on product 1 and variant 2 with quantity 2 was accepted
\* with backorder allowed: the product record went from 1 to 0 (order_out row)
\* and the variant record, never scanned or adjusted, from 2 to 0.
C21_Witness ==
    /\ resp.op = "create_order" /\ resp.status = 200
    /\ orders[Len(orders)].items = <<OrderItemCreate(1, 2, 2)>>
    /\ variant_inventory_logs = <<>>
    /\ variant_inventory[2].quantity = 0
    /\ inventory[1].quantity = 0
    /\ inventory_logs # <<>>
    /\ inventory_logs[Len(inventory_logs)].action = "order_out"
    /\ inventory_logs[Len(inventory_logs)].inventory_id = 1
    /\ inventory_logs[Len(inventory_logs)].quantity_before = 1

\* Single lines on a product record alone: quantities below, at and above the
\* stock, and a negative one.
ProductLineProbes == {OrderItemCreate(p, 0, n) : p \in 1..2, n \in {-1, 1, 2, 3, 4}}

\* C22: an order_out deduction of N from a product record that holds q fails
\* with InsufficientStock and persists nothing when q < N and backorder is
\* disallowed; succeeds and stores 0 when q < N and backorder is allowed;
\* succeeds and stores q - N when q >= N.
C22_OrderOutDeduction ==
    \A line \in ProductLineProbes :
        LET out == create_order(AtSecond(DB, LastOrderSecond + 1), <<line>>)
            q == inventory[line.product_id].quantity
            allow_backorder == inventory[line.product_id].allow_backorder
            stored == out.db.inventory[line.product_id].quantity
        IN /\ (q < line.quantity /\ ~allow_backorder) =>
                 /\ out.resp.status = 400 /\ out.resp.detail = "InsufficientStock"
                 /\ NothingPersisted(out)
           /\ (q < line.quantity /\ allow_backorder) =>
                 out.resp.status = 200 /\ stored = 0
           /\ q >= line.quantity =>
                 out.resp.status = 200 /\ stored = q - line.quantity

\* An order of one line without a variant was accepted under backorder for more
\* than the record held, and the record now holds 0.
C22_Witness ==
    /\ resp.op = "create_order" /\ resp.status = 200
    /\ Len(orders[Len(orders)].items) = 1
    /\ orders[Len(orders)].items[1].variant_id = 0
    /\ inventory_logs # <<>>
    /\ LET row == inventory_logs[Len(inventory_logs)]
       IN /\ row.action = "order_out"
          /\ row.reference = resp.order_number
          /\ row.quantity_before > 0
          /\ row.quantity_before < 0 - row.quantity_change
          /\ inventory[row.inventory_id].allow_backorder
          /\ inventory[row.inventory_id].quantity = 0

\* Every record that held a quantity >= 0 before the request holds one after it.
NonNegativeKept(out) ==
    /\ \A p \in DOMAIN inventory :
          inventory[p].quantity >= 0 => out.db.inventory[p].quantity >= 0
    /\ \A v \in DOMAIN variant_inventory :
          variant_inventory[v].quantity >= 0 => out.db.variant_inventory[v].quantity >= 0

\* The record was set to a negative quantity by PUT /inventory/{product_id}.
SetNegative(p) ==
    \E k \in 1..Len(inventory_logs) :
        /\ inventory_logs[k].inventory_id = p
        /\ inventory_logs[k].action = "adjustment"
        /\ inventory_logs[k].quantity_after < 0

\* C23: a scan_in, a scan_out, a variant set/add/remove and the creation of an
\* order (of positive line quantities, and of any other) leave every record that
\* held a quantity >= 0 with a quantity >= 0; starting from records >= 0, a
\* record is negative only if it is a product record that a manual set made
\* negative.
C23_QuantityNonNegative ==
    /\ \A data \in LedgerRequests \cup DeductScans, rows \in RowOrders(DB) :
          NonNegativeKept(scan_inventory(DB, data, rows))
    /\ \A variant_id \in 1..2, quantity \in 0..3, adjustment_type \in AdjustmentTypes :
          NonNegativeKept(update_variant_inventory(DB, variant_id, quantity,
                                                   adjustment_type))
    /\ \A items \in OrderProbes \cup DeductOrders :
          NonNegativeKept(create_order(AtSecond(DB, LastOrderSecond + 1), items))
    /\ \A v \in DOMAIN variant_inventory : variant_inventory[v].quantity >= 0
    /\ \A p \in DOMAIN inventory : inventory[p].quantity < 0 => SetNegative(p)

\* A scan_out has just drained a record to exactly 0 while a product record set
\* negative by hand is the only negative one.
C23_Witness ==
    /\ resp.op = "scan" /\ resp.status = 200 /\ resp.committed
    /\ resp.change < 0 /\ resp.new_quantity = 0
    /\ Quantity(DB, resp.target) = 0
    /\ \E p \in DOMAIN inventory : inventory[p].quantity < 0 /\ SetNegative(p)

\* The request leaves reserved_quantity of every record as it was.
ReservedKept(out) ==
    /\ \A p \in DOMAIN inventory :
          out.db.inventory[p].reserved_quantity = inventory[p].reserved_quantity
    /\ \A v \in DOMAIN variant_inventory :
          out.db.variant_inventory[v].reserved_quantity =
              variant_inventory[v].reserved_quantity

\* C24: no scan, manual set, variant adjustment, order creation, order status
\* change, order update or order deletion changes reserved_quantity of any
\* record: it keeps its creation-time value 0, so available_quantity is the
\* quantity of a product record and max(0, quantity) of a variant record.
C24_ReservedNeverChanges ==
    /\ \A p \in DOMAIN inventory :
          /\ inventory[p].reserved_quantity = 0
          /\ available_quantity(inventory[p]) = inventory[p].quantity
    /\ \A v \in DOMAIN variant_inventory :
          /\ variant_inventory[v].reserved_quantity = 0
          /\ variant_available_quantity(variant_inventory[v]) =
                 max(0, variant_inventory[v].quantity)
    /\ \A data \in DeductScans, rows \in RowOrders(DB) :
          ReservedKept(scan_inventory(DB, data, rows))
    /\ \A product_id \in 1..2, data \in UpdateRequests \cup DeductUpdates :
          ReservedKept(update_inventory(DB, product_id, data))
    /\ \A variant_id \in 1..2, adjustment_type \in AdjustmentTypes :
          ReservedKept(update_variant_inventory(DB, variant_id, 2, adjustment_type))
    /\ \A items \in DeductOrders :
          ReservedKept(create_order(AtSecond(DB, LastOrderSecond + 1), items))
    /\ \A order_id \in 1..2 :
          /\ ReservedKept(delete_order(DB, order_id))
          /\ \A status \in valid_statuses :
                /\ ReservedKept(update_order_status(DB, order_id, status))
                /\ ReservedKept(update_order(DB, order_id, OrderUpdate(TRUE, status)))

\* An order was accepted after a manual set had made a product record negative:
\* the records differ from their creation-time quantities and none reserves.
C24_Witness ==
    /\ resp.op = "create_order" /\ resp.status = 200
    /\ orders # <<>>
    /\ \E p \in DOMAIN inventory : inventory[p].quantity < 0
    /\ \E p \in DOMAIN inventory :
          /\ inventory[p].quantity # DeductCatalog.inventory[p].quantity
          /\ inventory[p].quantity >= 0
    /\ \A p \in DOMAIN inventory : inventory[p].reserved_quantity = 0

-----------------------------------------------------------------------------
(* Order numbers *)

\* The step is a CreateOrder that arrives in the second of a persisted order.
SameSecondOrder ==
    /\ resp'.op = "create_order"
    /\ \E i \in 1..Len(orders) : orders[i].order_number = resp'.order_number

-----------------------------------------------------------------------------
(* Barcodes of products without variants *)

\* A scan of the barcode alone.
BarcodeScan(barcode) == ScanRequest(0, barcode, "scan_in", 1)

\* C26: for every product without variants, a ScanAdjust given exactly the
\* barcode stored on the product (generated from its id or taken from a custom
\* SKU) is accepted on the product's own Inventory Record: it resolves to no
\* other record and does not fail with NotFound.
C26_OwnBarcodeResolves ==
    \A p \in DOMAIN products :
        VariantIds(DB, p) = {} =>
            \A rows \in RowOrders(DB) :
                LET out == scan_inventory(DB, BarcodeScan(products[p].barcode), rows)
                IN /\ out.resp.status = 200
                   /\ out.resp.target = PRec(p)

-----------------------------------------------------------------------------
(* Default variants *)

\* The variants of product p that carry the default flag.
Defaults(db, p) == {v \in VariantIds(db, p) : db.variants[v].is_default}

AtMostOneDefault(db) == \A p \in DOMAIN db.products : Cardinality(Defaults(db, p)) <= 1

\* C27: after any sequence of create_variant, update_variant and delete_variant
\* calls executed one at a time, each product has at most one variant with
\* is_default = true, and each further such call keeps it so.
C27_AtMostOneDefault ==
    /\ AtMostOneDefault(DB)
    /\ \A product_id \in VariantSystemIds, data \in VariantCreateProbes :
          AtMostOneDefault(create_variant(DB, product_id, data).db)
    /\ \A variant_id \in VariantSystemIds, has_is_default \in BOOLEAN, is_default \in BOOLEAN :
          AtMostOneDefault(update_variant(DB, variant_id,
                                          VariantUpdate(has_is_default, is_default)).db)
    /\ \A variant_id \in VariantSystemIds : AtMostOneDefault(delete_variant(DB, variant_id).db)

\* update_variant has just made a later variant the default of a product whose
\* first variant, created as the default with the product's barcode, lost the
\* flag.
C27_Witness ==
    /\ resp.op = "update_variant" /\ resp.status = 200
    /\ resp.id \in DOMAIN variants
    /\ variants[resp.id].is_default
    /\ \E v \in VariantIds(DB, variants[resp.id].product_id) :
          /\ v # resp.id
          /\ variants[v].barcode = products[variants[v].product_id].barcode
          /\ ~variants[v].is_default

-----------------------------------------------------------------------------
(* Several lines on one product *)

\* The line quantities of an order of two or three lines.
LineQuantityProbes ==
    {<<a, b>> : a \in {-1, 1, 2, 4}, b \in {-1, 1, 2, 4}}
    \cup {<<a, b, c>> : a \in 1..2, b \in 1..2, c \in 1..2}

\* The order whose lines all name product p alone, with these quantities.
LinesOn(p, qs) == [i \in 1..Len(qs) |-> OrderItemCreate(p, 0, qs[i])]

\* What the lines before line i ask for together.
AskedBefore(qs, i) == Sum(SubSeq(qs, 1, i - 1))

\* C28: when one CreateOrder has several lines on the same product and
\* backorder is disallowed, the stock check of each line sees the quantity
\* already reduced by the lines before it.  The order is accepted exactly when
\* every line finds what it asks for in what the earlier lines left, which
\* requires the sum of the lines to be <= the initial stock; it then leaves the
\* initial stock minus that sum and one order_out row per line, each starting
\* from what the lines before it left.
C28_LinesAccumulate ==
    \A p \in DOMAIN inventory, qs \in LineQuantityProbes :
        LET out == create_order(AtSecond(DB, LastOrderSecond + 1), LinesOn(p, qs))
            q0 == inventory[p].quantity
            n == Len(inventory_logs)
        IN ~inventory[p].allow_backorder =>
              /\ out.resp.status = 200 <=>
                    \A i \in 1..Len(qs) : qs[i] <= q0 - AskedBefore(qs, i)
              /\ out.resp.status # 200 =>
                    out.resp.detail = "InsufficientStock" /\ NothingPersisted(out)
              /\ out.resp.status = 200 =>
                    /\ Sum(qs) <= q0
                    /\ out.db.inventory[p].quantity = q0 - Sum(qs)
                    /\ Len(out.db.inventory_logs) = n + Len(qs)
                    /\ \A i \in 1..Len(qs) :
                          /\ out.db.inventory_logs[n + i].action = "order_out"
                          /\ out.db.inventory_logs[n + i].inventory_id = p
                          /\ out.db.inventory_logs[n + i].quantity_change = 0 - qs[i]
                          /\ out.db.inventory_logs[n + i].quantity_before =
                                 q0 - AskedBefore(qs, i)

\* An order of two lines on one product without backorder was accepted: the
\* second order_out row starts from what the first left, and the record holds
\* what the second left.
C28_Witness ==
    /\ resp.op = "create_order" /\ resp.status = 200
    /\ Len(orders[Len(orders)].items) = 2
    /\ orders[Len(orders)].items[1].product_id = orders[Len(orders)].items[2].product_id
    /\ Len(inventory_logs) >= 2
    /\ LET n == Len(inventory_logs)
           p == orders[Len(orders)].items[1].product_id
       IN /\ ~inventory[p].allow_backorder
          /\ inventory_logs[n].inventory_id = p
          /\ inventory_logs[n - 1].inventory_id = p
          /\ inventory_logs[n - 1].reference = resp.order_number
          /\ inventory_logs[n].reference = resp.order_number
          /\ inventory_logs[n - 1].quantity_after < inventory_logs[n - 1].quantity_before
          /\ inventory_logs[n].quantity_before = inventory_logs[n - 1].quantity_after
          /\ inventory[p].quantity = inventory_logs[n].quantity_after

-----------------------------------------------------------------------------
(* Direction of the order-time deduction *)

\* C29: CreateOrder never increases the quantity of any Inventory Record: for
\* every accepted request, of whatever integer line quantities, the quantity of
\* each record after the call is <= its quantity before the call.
C29_OrderNeverIncreases ==
    \A items \in OrderProbes \cup DeductOrders :
        LET out == create_order(AtSecond(DB, LastOrderSecond + 1), items)
        IN out.resp.status = 200 =>
              /\ \A p \in DOMAIN inventory :
                    out.db.inventory[p].quantity <= inventory[p].quantity
              /\ \A v \in DOMAIN variant_inventory :
                    out.db.variant_inventory[v].quantity <= variant_inventory[v].quantity

-----------------------------------------------------------------------------
(* Orders that are deleted or moved through their statuses *)

\* C30: stock deducted by CreateOrder is never returned: deleting an order, and
\* changing its status to any value, "cancelled" included, through the status
\* endpoint or the general update, leave every Inventory Record and every
\* Inventory Log as they were.
C30_DeductionNeverReturned ==
    \A order_id \in 1..(order_seq + 1) :
        /\ InventoryUntouched(delete_order(DB, order_id))
        /\ InventoryUntouched(update_order(DB, order_id, OrderUpdate(FALSE, "")))
        /\ \A status \in valid_statuses \cup {"refunded"} :
              /\ InventoryUntouched(update_order_status(DB, order_id, status))
              /\ InventoryUntouched(update_order(DB, order_id, OrderUpdate(TRUE, status)))

\* An order that took product 2 from 1 to 0 has been deleted: the record still
\* holds 0 and the order_out row is still in the ledger.
C30_Witness ==
    /\ resp.op = "delete_order" /\ resp.status = 200
    /\ orders = <<>> /\ order_seq > 0
    /\ inventory[2].quantity = 0
    /\ BaseCatalog.inventory[2].quantity = 1
    /\ Len(inventory_logs) = 1
    /\ inventory_logs[1].action = "order_out"
    /\ inventory_logs[1].inventory_id = 2

====
